---- MODULE Spec2Model ----
(***************************************************************************)
(* A model of yt-live-recorder: the recording session supervisor           *)
(* (src/recorder.py, StreamRecorder), its reconnect loop, and the          *)
(* multi-channel monitor (src/monitor.py, ChannelMonitor).                 *)
(*                                                                         *)
(* External capture processes (yt-dlp), the filesystem and the wall clock  *)
(* are the environment: a process may write its output file, exit on its   *)
(* own, or survive terminate() and kill().                                 *)
(***************************************************************************)
EXTENDS Integers, Sequences, FiniteSets, TLC

\* ------------------------------------------------------------------ bounds
\* Number of external processes that may be launched in one behaviour.
MaxProcs == 2
\* Last reading of the wall clock (seconds) that is followed.
MaxTime == 1
\* Largest max_reconnects argument given to record_with_reconnect.
MaxReconnects == 1
\* Number of times a source interrupts a recording while it stays live,
\* before it goes offline for good.
InterruptionCycles == 3
\* Number of channels the monitor can be configured with.
NumChannels == 2

\* ------------------------------------------------------------ program constants
\* sanitize_filename keeps at most this many characters.
MaxNameLen == 100
\* "max_reconnects: int = 5"
DefaultMaxReconnects == 5

\* The process ids there are; a behaviour launches the first MaxProcs of them,
\* or as many as a record_with_reconnect with the default maximum can launch.
ProcIds ==
    1..(IF MaxProcs > DefaultMaxReconnects + 1
        THEN MaxProcs
        ELSE DefaultMaxReconnects + 1)
RecIds == 1..MaxProcs

None == "None"
\* The absent values of the optional fields.
NoTime == -1
NoName == << >>
NoPath == [tmp |-> FALSE, file |-> [name |-> << >>, ts |-> NoTime, ext |-> ""]]

\* What a StreamRecorder call returns or raises.
RetPath(path) == [kind |-> "path", path |-> path, text |-> ""]
RetNone == [kind |-> "none", path |-> NoPath, text |-> ""]
RetBool(b) == [kind |-> "bool", path |-> NoPath, text |-> IF b THEN "True" ELSE "False"]
Raises(message) == [kind |-> "raise", path |-> NoPath, text |-> message]

\* Channel names given to start_recording, as sequences of characters.
Names == { <<"c", "/">>, <<"c", "_">> }
\* Stream URLs.
Urls == { "u1", "u2" }
\* The (stream_url, channel_name) arguments of the calls made on one recorder.
\* The two names differ but sanitize to the same filename stem.
StartArgs == { <<"u1", <<"c", "/">> >>, <<"u2", <<"c", "_">> >> }

VARIABLES
    now,        \* the latest reading of the wall clock, in seconds (datetime.now())
    files,      \* filesystem of the output directory: path -> writer of the data
    procs,      \* external capture processes launched so far
    rec,        \* StreamRecorder objects
    lastCall,   \* the last StreamRecorder API call and what it returned or raised
    recon,      \* record_with_reconnect: its position, arguments and counters
    retry,      \* retry_with_backoff: its position, configuration and locals
    timed,      \* record_with_duration: its position, argument and locals
    halt,       \* stop_recording followed statement by statement: its position
    channels,   \* ChannelMonitor.config.channels: the configured channel ids
    chan,       \* ChannelMonitor._states: channel id -> ChannelState
    stop_event, \* ChannelMonitor._stop_event
    worker,     \* the polling thread of each channel: position and locals
    stopper,    \* the thread that runs ChannelMonitor.stop(): position and locals
    reader,     \* a thread that runs ChannelMonitor.get_status(): position and locals
    starter,    \* the thread that runs ChannelMonitor.start(): position and _threads
    trace,      \* the polls of channel 1 and the recorder calls they led to
    lock        \* ChannelMonitor._lock: the thread that holds it (0: none)

recVars == <<now, files, procs, rec, lastCall>>
monVars == <<channels, chan, stop_event, worker, stopper, reader, starter, trace, lock>>
vars == <<now, files, procs, rec, lastCall, recon, retry, timed, halt,
          channels, chan, stop_event, worker, stopper, reader, starter, trace,
          lock>>

\* ------------------------------------------------------------------ utils.py
ReservedChars == { "<", ">", ":", "\"", "/", "\\", "|", "?", "*" }
StripChars == { " ", "." }

\* A replacement that leaves the asterisk in place.
ReplaceReserved_KeepsStar(name) ==
    [i \in 1..Len(name) |->
        IF name[i] \in ReservedChars \ {"*"} THEN "_" ELSE name[i]]

\* re.sub(r'[<>:"/\\|?*]', '_', name)
ReplaceReserved(name) ==
    [i \in 1..Len(name) |-> IF name[i] \in ReservedChars THEN "_" ELSE name[i]]

RECURSIVE LStrip(_)
LStrip(s) ==
    IF s # <<>> /\ Head(s) \in StripChars THEN LStrip(Tail(s)) ELSE s

RECURSIVE RStrip(_)
RStrip(s) ==
    IF s # <<>> /\ s[Len(s)] \in StripChars
    THEN RStrip(SubSeq(s, 1, Len(s) - 1))
    ELSE s

\* str.strip(' .')
Strip(s) == RStrip(LStrip(s))

Unknown == <<"u", "n", "k", "n", "o", "w", "n">>

sanitize_filename(name) ==
    LET replaced == ReplaceReserved(name)
        stripped == Strip(replaced)
        limited == IF Len(stripped) > MaxNameLen
                   THEN SubSeq(stripped, 1, MaxNameLen)
                   ELSE stripped
    IN  IF limited = <<>> THEN Unknown ELSE limited

\* The values datetime.now() can return: the clock never runs backwards.
ClockReadings == now..MaxTime

\* f"{safe_name}_{timestamp}.{extension}", timestamp being the clock reading t
\* formatted at a resolution of one second
generate_filename(channel_name, extension, t) ==
    [name |-> sanitize_filename(channel_name), ts |-> t, ext |-> extension]

\* output_dir / filename  and  output_dir / f".{filename}.tmp"
FinalPath(filename) == [tmp |-> FALSE, file |-> filename]
TempPath(filename) == [tmp |-> TRUE, file |-> filename]

Exists(path) == path \in DOMAIN files

\* ------------------------------------------------------- recorder.py: state
\* StreamRecorder.__init__
NewRecorder ==
    [ process        |-> 0,       \* _process: 0 is None, else a process id
      start_time     |-> NoTime,  \* _start_time
      current_file   |-> NoPath,  \* _current_file
      temp_file      |-> NoPath,  \* _temp_file
      stop_event     |-> FALSE,   \* _stop_event
      channel_name   |-> NoName,  \* _channel_name
      stream_url     |-> None,    \* _stream_url
      output_threads |-> {} ]     \* _output_threads: whose pipes are drained

NoProc == [state |-> "unborn", owner |-> 0, out |-> NoPath, wrote |-> FALSE]
\* A process that has exited: it no longer writes and has no launcher to count for.
ExitedProc == [state |-> "exited", owner |-> 0, out |-> NoPath, wrote |-> FALSE]

\* The processes when n of them can still be launched: the ids above n belong
\* to processes that are gone.
Pool(n) == [p \in ProcIds |-> IF p <= n THEN NoProc ELSE ExitedProc]

Unborn == { p \in ProcIds : procs[p].state = "unborn" }
Running(p) == procs[p].state = "running"
\* The process id the next Popen returns.
NextPid == CHOOSE p \in Unborn : \A q \in Unborn : p <= q

\* What a call hands back to a direct caller of the recorder. The threads of
\* a ChannelMonitor keep what they use of a call's outcome in their own state.
Returned(r, op, result, how) ==
    lastCall' = IF channels = {}
                THEN [r |-> r, op |-> op, result |-> result, how |-> how,
                      seq |-> 1 - lastCall.seq]
                ELSE lastCall

\* --------------------------------------------- recorder.py: start_recording
\* "if self._process is not None: raise RecordingError('Already recording')"
StartAlreadyRecording(r) ==
    /\ Returned(r, "start", Raises("Already recording"), "raise")
    /\ UNCHANGED <<now, files, procs, rec>>

\* check_disk_space(required_mb=500) reported too little space.
StartNoDiskSpace(r) ==
    /\ Returned(r, "start", Raises("Insufficient disk space for recording"), "raise")
    /\ UNCHANGED <<now, files, procs, rec>>

\* Lines 146-152: the session's URL, name and paths; t is the clock reading.
WithSession(r, stream_url, channel_name, t) ==
    LET filename == generate_filename(channel_name, "mp4", t)
    IN  [rec[r] EXCEPT !.stream_url = stream_url,
                       !.channel_name = channel_name,
                       !.current_file = FinalPath(filename),
                       !.temp_file = TempPath(filename)]

\* subprocess.Popen raised: "Failed to start recording".
StartPopenFails(r, stream_url, channel_name) ==
    /\ \E t \in ClockReadings :
          /\ now' = t
          /\ rec' = [rec EXCEPT ![r] = WithSession(r, stream_url, channel_name, t)]
    /\ Returned(r, "start", Raises("Failed to start recording"), "raise")
    /\ UNCHANGED <<files, procs>>

\* subprocess.Popen succeeded: the process runs, two drain threads are started.
StartLaunches(r, stream_url, channel_name) ==
    /\ Unborn # {}
    /\ \E t \in ClockReadings :
          LET p == NextPid
              s == WithSession(r, stream_url, channel_name, t)
          IN  /\ now' = t
              /\ procs' = [procs EXCEPT ![p] =
                              [state |-> "running", owner |-> r, out |-> s.temp_file,
                               wrote |-> FALSE]]
              /\ rec' = [rec EXCEPT ![r] =
                            [s EXCEPT !.process = p,
                                      !.start_time = t,
                                      !.output_threads = {p}]]
              /\ Returned(r, "start", RetPath(s.current_file), "ok")
    /\ UNCHANGED files

StartFresh(r, stream_url, channel_name) ==
    \/ StartNoDiskSpace(r)
    \/ StartPopenFails(r, stream_url, channel_name)
    \/ StartLaunches(r, stream_url, channel_name)

\* A start_recording that lacks the already-recording check.
start_recording_unguarded(r, stream_url, channel_name) ==
    StartFresh(r, stream_url, channel_name)

start_recording(r, stream_url, channel_name) ==
    IF rec[r].process # 0
    THEN StartAlreadyRecording(r)
    ELSE StartFresh(r, stream_url, channel_name)

\* ---------------------------------------------- recorder.py: stop_recording
\* How the terminate / wait(5) / kill / wait(2) sequence can end for process p.
\*   graceful:   wait(timeout=5) returned
\*   killed:     wait(5) timed out, kill(), wait(timeout=2) returned
\*   unkillable: both waits timed out ("Process could not be killed")
\*   error:      terminate() or wait() raised another Exception
StopOutcomes(p) ==
    IF Running(p)
    THEN { "graceful", "killed", "unkillable", "error" }
    ELSE { "graceful", "error" }

\* The waits that returned confirm that the process has exited.
ProcsAfterStop(p, how) ==
    IF how \in { "graceful", "killed" }
    THEN [procs EXCEPT ![p] = ExitedProc]
    ELSE procs

\* A stop that keeps the handle of a process it could not confirm stopped.
HandleAfterStop_KeepUnconfirmed(p, how) ==
    IF how \in { "graceful", "killed" } THEN 0 ELSE p

\* "self._process = None", reached on every path out of the try statement.
HandleAfterStop(p, how) == 0

\* A rename failure that reports the final path.
RenameFailedResult_Final(r) == RetPath(rec[r].current_file)

\* "except Exception: ... return self._temp_file"
RenameFailedResult(r) == RetPath(rec[r].temp_file)

\* Lines 244-258: move the temporary file to its final location.
Finalize(r, how) ==
    LET tmp == rec[r].temp_file
        fin == rec[r].current_file
    IN  IF tmp # NoPath /\ Exists(tmp)
        THEN \/ /\ files' = [q \in (DOMAIN files \ {tmp}) \cup {fin} |->
                                IF q = fin THEN files[tmp] ELSE files[q]]
                /\ Returned(r, "stop", RetPath(fin), how)
             \/ /\ files' = files
                /\ Returned(r, "stop", RenameFailedResult(r), how)
        ELSE /\ files' = files
             /\ Returned(r, "stop", RetNone, how)

\* A no-op stop that still signals the stop event.
StopNotRecording_SetsEvent(r) ==
    /\ rec' = [rec EXCEPT ![r].stop_event = TRUE]
    /\ Returned(r, "stop", RetNone, "noop")
    /\ UNCHANGED <<now, files, procs>>

\* "if self._process is None: return None"
StopNotRecording(r) ==
    /\ Returned(r, "stop", RetNone, "noop")
    /\ UNCHANGED <<now, files, procs, rec>>

StopOwned(r) ==
    LET p == rec[r].process
    IN  \E how \in StopOutcomes(p) :
            /\ procs' = ProcsAfterStop(p, how)
            /\ rec' = [rec EXCEPT ![r].process = HandleAfterStop(p, how),
                                  ![r].stop_event = TRUE,
                                  ![r].output_threads = {}]
            /\ Finalize(r, how)
            /\ UNCHANGED now

stop_recording(r) ==
    IF rec[r].process = 0 THEN StopNotRecording(r) ELSE StopOwned(r)

\* ------------------------------------------------ recorder.py: is_recording
\* An is_recording that answers from the stored handle alone.
is_recording_FromHandle(r) == rec[r].process # 0

\* "self._process is not None and self._process.poll() is None"
is_recording(r) == rec[r].process # 0 /\ Running(rec[r].process)

IsRecordingCall(r) ==
    /\ Returned(r, "is_recording", RetBool(is_recording(r)), "ok")
    /\ UNCHANGED <<now, files, procs, rec>>

\* ------------------------------------------------------------- environment
\* The capture process ends on its own (stream over, network failure, crash).
ProcExit(p) ==
    /\ Running(p)
    /\ procs' = [procs EXCEPT ![p] = ExitedProc]
    /\ UNCHANGED <<now, files, rec, lastCall>>

\* The capture process creates the file at the path given with -o and writes
\* media data to it; it opens the path once (--no-part, --no-continue).
ProcWrite(p) ==
    /\ Running(p)
    /\ ~procs[p].wrote
    /\ procs' = [procs EXCEPT ![p].wrote = TRUE]
    /\ files' = [q \in DOMAIN files \cup {procs[p].out} |->
                    IF q = procs[p].out THEN p ELSE files[q]]
    /\ UNCHANGED <<now, rec, lastCall>>

EnvExit == \E p \in ProcIds : ProcExit(p)
EnvWrite == \E p \in ProcIds : ProcWrite(p)

\* ----------------------------------------------------- monitor.py: state
Channels == 1..NumChannels
VideoIds == { "A", "B" }

\* ChannelConfig.name of each channel; the names differ in a reserved character.
ChannelMarks == <<"/", "_", "?", ":", "*">>
ChannelName(c) == <<"c", ChannelMarks[c]>>

\* LiveStatus, as get_channel_live_status returns it.
NotLive == [is_live |-> FALSE, video_id |-> None, title |-> None]
Live(v) == [is_live |-> TRUE, video_id |-> v, title |-> IF v = "A" THEN "tA" ELSE "tB"]
Statuses == { NotLive } \cup { Live(v) : v \in VideoIds }
\* What a poll of channel c can report: channel 1 may switch between the
\* streams, every other channel has one stream.
ChannelStatuses(c) == { s \in Statuses : c = 1 \/ s.video_id # "B" }

\* ChannelState(config=ch)
NewChannelState ==
    [ is_live          |-> FALSE,
      is_recording     |-> FALSE,
      current_video_id |-> None,
      current_title    |-> None,
      recorder         |-> 0,      \* 0 is None, else a StreamRecorder
      last_error       |-> None ]

\* A polling thread: where it is in _monitor_channel and the locals it holds.
NewWorker ==
    [ pc            |-> "init",
      status        |-> NotLive,   \* status (the poll's LiveStatus)
      then_start    |-> FALSE,     \* _start_recording follows _stop_recording
      recorder      |-> 0,         \* recorder (local of _start_recording)
      error         |-> None,      \* str(e) in _start_recording's except clause
      waited        |-> 0 ]        \* the sleeps done in the wait between two polls

\* The thread running stop(): where it is and the channel it is stopping.
\* load: the sessions that were recording when stop() was called, if every
\* channel was recording then.
\* survived: a process this call of stop() tried to stop is still running.
NewStopper == [pc |-> "idle", channel |-> 0, load |-> {}, survived |-> FALSE]

\* The thread running start(): where it is, and self._threads, the channels
\* of the polling threads it has launched, in launch order.
NewStarter == [pc |-> "idle", threads |-> << >>]

\* The entry get_status() builds for one channel, before any field is read.
NoEntry ==
    [ is_live       |-> FALSE,
      is_recording  |-> FALSE,
      current_title |-> None,
      last_error    |-> None ]

\* The thread running get_status(): the attribute it reads next, the channel
\* whose entry it is building, and the entry so far.
NewReader == [pc |-> "idle", channel |-> 0, entry |-> NoEntry]

\* The poll sequence of the monitor's transition-table example and the
\* recorder calls it is expected to lead to.
ExamplePolls == <<NotLive, Live("A"), Live("A"), Live("B"), NotLive>>
ExampleEvents == << <<"start", "A">>, <<"stop", "A">>, <<"start", "B">>, <<"stop", "B">> >>

\* What is remembered of channel 1's polls: the last successful poll (the
\* state it found, its status, the recorder calls it made so far) and, as
\* long as the polls follow ExamplePolls, all polls and all recorder calls.
NoTrace ==
    [ on       |-> FALSE,
      clean    |-> TRUE,      \* no start of a recording has failed
      was_live |-> FALSE,
      video    |-> None,
      status   |-> NotLive,
      events   |-> << >>,
      tracking |-> FALSE,
      polls    |-> << >>,
      log      |-> << >> ]

\* No ChannelMonitor exists.
MonitorUnused ==
    /\ channels = {}
    /\ chan = [c \in Channels |-> NewChannelState]
    /\ stop_event = FALSE
    /\ worker = [c \in Channels |-> NewWorker]
    /\ stopper = NewStopper
    /\ reader = NewReader
    /\ starter = NewStarter
    /\ trace = NoTrace
    /\ lock = 0

\* ------------------------------------------------------ initial conditions
NoCall == [r |-> 0, op |-> "none", result |-> RetNone, how |-> "none", seq |-> 0]

\* retry_with_backoff has not been called. Exceptions are told apart by the
\* invocation of the operation that raised them.
NoRetry ==
    [ pc             |-> "idle",
      config         |-> [ max_attempts  |-> 0,      \* RetryConfig.max_attempts
                           base_delay    |-> 0,      \* RetryConfig.base_delay, seconds
                           max_delay     |-> 0,      \* RetryConfig.max_delay, seconds
                           log2_base     |-> 0,      \* log2 of RetryConfig.exponential_base
                           jitter        |-> FALSE,  \* RetryConfig.jitter
                           on_retry      |-> FALSE ],\* an on_retry callback is given
      attempt        |-> 0,        \* attempt (the loop variable)
      last_exception |-> 0,        \* last_exception: 0 is None
      delay          |-> 0,        \* delay, in quarter seconds
      calls          |-> 0,        \* invocations of func so far
      notified       |-> 0,        \* on_retry calls so far
      told           |-> 0,        \* the delay given to the last on_retry call
      slept          |-> 0,        \* time.sleep calls so far
      slept_for      |-> 0,        \* the delay given to the last time.sleep call
      fatal          |-> 0,        \* the invocation that failed unretryably, if any
      result         |-> [kind |-> "none", of |-> 0] ]

\* No stop_recording call is being followed statement by statement.
NoHalt ==
    [ pc       |-> "idle",
      requests |-> << >>,     \* terminate() and kill() calls that were made
      timeouts |-> 0,         \* wait() calls that raised TimeoutExpired
      waits    |-> 0,         \* wait() calls made
      how      |-> "none" ]   \* how the try statement ended

\* record_with_duration has not been called.
NoTimed ==
    [ pc          |-> "idle",
      duration    |-> 0,       \* duration argument, in seconds
      elapsed     |-> 0,       \* whole seconds of time.time() since start_time
      ticks       |-> 0,       \* time.sleep(1) calls made
      stops       |-> 0,       \* stop_recording calls made
      sessions    |-> 0,       \* start_recording calls that launched a process
      interrupted |-> FALSE,   \* a KeyboardInterrupt arrived during the wait
      result      |-> RetNone ]

\* record_with_reconnect has not been called.
NoReconnect ==
    [ pc              |-> "idle",
      stream_url      |-> None,     \* stream_url argument
      channel_name    |-> NoName,   \* channel_name argument
      max_reconnects  |-> 0,        \* max_reconnects argument, _max_reconnects
      reconnect_count |-> 0,        \* _reconnect_count
      parts           |-> << >>,    \* _recording_parts
      iters           |-> 0,        \* iterations of the while loop begun
      sessions        |-> 0,        \* start_recording calls that launched a process
      refreshes       |-> 0,        \* get_stream_url() calls
      raised          |-> 0 ]       \* iterations that ended in the except clause

InitRec ==
    /\ now = 0
    /\ files = << >>
    /\ procs = Pool(MaxProcs)
    /\ rec = [r \in RecIds |-> NewRecorder]
    /\ lastCall = NoCall
    /\ recon = NoReconnect
    /\ retry = NoRetry
    /\ timed = NoTimed
    /\ halt = NoHalt
    /\ MonitorUnused

\* ---------------------------------- one StreamRecorder, called in any order
TheRecorder == 1

RecStart ==
    /\ \E a \in StartArgs : start_recording(TheRecorder, a[1], a[2])
    /\ UNCHANGED <<recon, retry, timed, halt, monVars>>

RecStop == stop_recording(TheRecorder) /\ UNCHANGED <<recon, retry, timed, halt, monVars>>

RecIsRecording == IsRecordingCall(TheRecorder) /\ UNCHANGED <<recon, retry, timed, halt, monVars>>

RecNext ==
    \/ RecStart
    \/ RecStop
    \/ RecIsRecording
    \/ EnvExit /\ UNCHANGED <<recon, retry, timed, halt, monVars>>
    \/ EnvWrite /\ UNCHANGED <<recon, retry, timed, halt, monVars>>

RecSpec == InitRec /\ [][RecNext]_vars

\* ----------------------------------------- recorder.py: record_with_reconnect
Digits == <<"0", "1", "2", "3", "4", "5", "6", "7", "8", "9">>

\* str(n) for n >= 0
RECURSIVE Decimal(_)
Decimal(n) ==
    IF n < 10
    THEN <<Digits[n + 1]>>
    ELSE Decimal(n \div 10) \o <<Digits[(n % 10) + 1]>>

\* f"{channel_name}_reconnect{self._reconnect_count}"
ReconnectName(channel_name, n) ==
    channel_name \o <<"_", "r", "e", "c", "o", "n", "n", "e", "c", "t">> \o Decimal(n)

\* The (stream_url, channel_name) arguments of record_with_reconnect.
ReconArgs == { <<"u1", <<"c", "/">> >> }
\* The URL get_stream_url() returns.
FreshUrl == "u2"

\* What check_is_live() and get_stream_url() can do when called.
LiveAnswers == { "live", "ended", "raise" }

\* The call with max_reconnects = m: lines 353-355 reset the counters.
ReconCallWith(m) ==
    /\ recon.pc = "idle"
    /\ \E a \in ReconArgs :
          recon' = [NoReconnect EXCEPT !.pc = "loop",
                                       !.stream_url = a[1],
                                       !.channel_name = a[2],
                                       !.max_reconnects = m]
    /\ UNCHANGED <<recVars, retry, timed, halt, monVars>>

ReconCall == \E m \in 0..MaxReconnects : ReconCallWith(m)

\* After a start_recording call: into the monitoring loop, or the except clause.
AfterStart(base) ==
    IF lastCall'.result.kind = "raise"
    THEN [base EXCEPT !.pc = "except"]
    ELSE [base EXCEPT !.pc = "inner", !.sessions = @ + 1]

\* Lines 359-368: the while test, then the start of this iteration's session.
ReconLoop ==
    /\ recon.pc = "loop"
    /\ IF recon.reconnect_count <= recon.max_reconnects
       THEN LET base == [recon EXCEPT !.iters = @ + 1]
            IN  IF recon.reconnect_count = 0
                THEN /\ start_recording(TheRecorder, recon.stream_url,
                                        recon.channel_name)
                     /\ recon' = AfterStart(base)
                ELSE \/ \* get_stream_url() raised
                        /\ recon' = [base EXCEPT !.pc = "except",
                                                 !.refreshes = @ + 1]
                        /\ UNCHANGED recVars
                     \/ \* fresh_url = get_stream_url()
                        /\ start_recording(TheRecorder, FreshUrl,
                               ReconnectName(recon.channel_name,
                                             recon.reconnect_count))
                        /\ recon' = AfterStart([base EXCEPT !.refreshes = @ + 1])
       ELSE /\ recon' = [recon EXCEPT !.pc = "done"]
            /\ UNCHANGED recVars
    /\ UNCHANGED <<retry, timed, halt, monVars>>

\* Line 371: is_recording() is false, the monitoring loop is left.
ReconInnerExited ==
    /\ recon.pc = "inner"
    /\ ~is_recording(TheRecorder)
    /\ recon' = [recon EXCEPT !.pc = "stop"]
    /\ UNCHANGED <<recVars, retry, timed, halt, monVars>>

\* Lines 371-377: the process runs; sleep(1), then check_is_live().
ReconInnerPoll(answer) ==
    /\ recon.pc = "inner"
    /\ is_recording(TheRecorder)
    /\ recon' = [recon EXCEPT !.pc = CASE answer = "live" -> "inner"
                                       [] answer = "ended" -> "stop"
                                       [] OTHER -> "except"]
    /\ UNCHANGED <<recVars, retry, timed, halt, monVars>>

\* Lines 379-382: stop the segment and collect its path.
ReconStop ==
    /\ recon.pc = "stop"
    /\ stop_recording(TheRecorder)
    /\ recon' = [recon EXCEPT
                    !.pc = "check",
                    !.parts = IF lastCall'.result.kind = "path"
                              THEN Append(@, lastCall'.result.path)
                              ELSE @]
    /\ UNCHANGED <<retry, timed, halt, monVars>>

\* A reconnect decision that does not look at check_is_live().
CheckNext_IgnoresAnswer(answer, r) ==
    IF r.reconnect_count < r.max_reconnects
    THEN [r EXCEPT !.reconnect_count = @ + 1, !.pc = "loop"]
    ELSE [r EXCEPT !.pc = "done"]

\* "if check_is_live() and self._reconnect_count < max_reconnects"
CheckNext(answer, r) ==
    IF answer = "live" /\ r.reconnect_count < r.max_reconnects
    THEN [r EXCEPT !.reconnect_count = @ + 1, !.pc = "loop"]
    ELSE [r EXCEPT !.pc = "done"]

\* Lines 384-393: reconnect if the stream is still live and attempts remain.
ReconCheckWith(answer) ==
    /\ recon.pc = "check"
    /\ recon' = IF answer = "raise"
                THEN [recon EXCEPT !.pc = "except"]
                ELSE CheckNext(answer, recon)
    /\ UNCHANGED <<recVars, retry, timed, halt, monVars>>

ReconCheck == \E answer \in LiveAnswers : ReconCheckWith(answer)

\* An except clause that retries without looking at the attempts left.
ExceptNext_AlwaysRetry(r) ==
    [r EXCEPT !.reconnect_count = @ + 1, !.pc = "loop"]

\* An except clause that lacks the "else: break".
ExceptNext_NoBreak(r) ==
    IF r.reconnect_count < r.max_reconnects
    THEN [r EXCEPT !.reconnect_count = @ + 1, !.pc = "loop"]
    ELSE [r EXCEPT !.pc = "loop"]

\* An except clause that re-raises.
ExceptNext_Propagates(r) == [r EXCEPT !.pc = "raised"]

\* An except clause that retries without counting the attempt.
ExceptNext_KeepsCount(r) ==
    IF r.reconnect_count < r.max_reconnects
    THEN [r EXCEPT !.pc = "loop"]
    ELSE [r EXCEPT !.pc = "done"]

\* Lines 399-404: retry if attempts remain, else leave the loop.
ExceptNext(r) ==
    IF r.reconnect_count < r.max_reconnects
    THEN [r EXCEPT !.reconnect_count = @ + 1, !.pc = "loop"]
    ELSE [r EXCEPT !.pc = "done"]

\* Lines 395-404: the except clause stops the session; its path is dropped.
ReconExcept ==
    /\ recon.pc = "except"
    /\ stop_recording(TheRecorder)
    /\ recon' = ExceptNext([recon EXCEPT !.raised = @ + 1])
    /\ UNCHANGED <<retry, timed, halt, monVars>>

\* The steps the calling thread takes by itself.
ReconProgress ==
    \/ ReconCall
    \/ ReconLoop
    \/ ReconInnerExited
    \/ ReconStop
    \/ ReconCheck
    \/ ReconExcept

ReconNext ==
    \/ ReconProgress
    \/ \E answer \in LiveAnswers : ReconInnerPoll(answer)
    \/ EnvExit /\ UNCHANGED <<recon, retry, timed, halt, monVars>>
    \/ EnvWrite /\ UNCHANGED <<recon, retry, timed, halt, monVars>>

ReconnectSpec == InitRec /\ [][ReconNext]_vars

\* The calling thread keeps running, and every capture process exits in the end
\* or check_is_live() reports in the end that the stream is over.
FairReconnectSpec ==
    /\ ReconnectSpec
    /\ WF_vars(ReconProgress)
    /\ \/ \A p \in ProcIds : WF_vars(ProcExit(p) /\ UNCHANGED <<recon, retry, timed, halt, monVars>>)
       \/ SF_vars(ReconInnerPoll("ended"))

\* check_is_live() of a source that stays live through InterruptionCycles
\* interruptions and is offline from then on.
InterruptedLive ==
    IF recon.reconnect_count < InterruptionCycles THEN "live" ELSE "ended"

\* record_with_reconnect with the default maximum on such a source.
InitInterrupted ==
    /\ now = 0
    /\ files = << >>
    /\ procs = Pool(DefaultMaxReconnects + 1)
    /\ rec = [r \in RecIds |-> NewRecorder]
    /\ lastCall = NoCall
    /\ recon = NoReconnect
    /\ retry = NoRetry
    /\ timed = NoTimed
    /\ halt = NoHalt
    /\ MonitorUnused

InterruptedNext ==
    \/ ReconCallWith(DefaultMaxReconnects)
    \/ ReconLoop
    \/ ReconInnerExited
    \/ ReconInnerPoll(InterruptedLive)
    \/ ReconStop
    \/ ReconCheckWith(InterruptedLive)
    \/ ReconExcept
    \/ EnvExit /\ UNCHANGED <<recon, retry, timed, halt, monVars>>
    \/ EnvWrite /\ UNCHANGED <<recon, retry, timed, halt, monVars>>

InterruptedSpec == InitInterrupted /\ [][InterruptedNext]_vars

AlwaysLiveNext ==
    \/ ReconCall
    \/ ReconLoop
    \/ ReconInnerExited
    \/ ReconInnerPoll("live")
    \/ ReconStop
    \/ ReconCheckWith("live")
    \/ ReconExcept
    \/ EnvExit /\ UNCHANGED <<recon, retry, timed, halt, monVars>>
    \/ EnvWrite /\ UNCHANGED <<recon, retry, timed, halt, monVars>>

AlwaysLiveSpec == InitRec /\ [][AlwaysLiveNext]_vars

\* C12: with max_reconnects = 0 and a source whose capture process exits while
\* check_is_live keeps reporting live, record_with_reconnect (no call raising)
\* starts exactly one session, returns exactly 1 part, never calls the
\* URL-refresh callback and never increments the reconnect counter.
C12_NoReconnectOnePart ==
    (recon.pc # "idle" /\ recon.max_reconnects = 0 /\ recon.raised = 0) =>
        /\ recon.sessions <= 1
        /\ recon.refreshes = 0
        /\ recon.reconnect_count = 0
        /\ recon.pc = "done" => (recon.sessions = 1 /\ Len(recon.parts) = 1)

\* C13: every iteration of record_with_reconnect stops its session and appends
\* the stop's path whether or not the session produced a file, so the returned
\* list has exactly one entry per session started.
C13_OnePartPerSession ==
    /\ recon.pc \in { "check", "loop", "done" } => rec[TheRecorder].process = 0
    /\ recon.pc = "done" => Len(recon.parts) = recon.sessions

\* C14: an exception raised by start_recording, by the URL-refresh callback or by
\* check_is_live never leaves record_with_reconnect: the except clause stops
\* the session, keeps the parts collected so far and either uses up one
\* reconnect attempt or, none being left, makes the call return.
C14_ExceptionsStayInside ==
    /\ [](recon.pc \in { "idle", "loop", "inner", "stop", "check", "except", "done" })
    /\ [][(recon.pc = "except" /\ recon' # recon) =>
            /\ rec'[TheRecorder].process = 0
            /\ recon'.parts = recon.parts
            /\ IF recon.reconnect_count < recon.max_reconnects
               THEN /\ recon'.reconnect_count = recon.reconnect_count + 1
                    /\ recon'.pc = "loop"
               ELSE /\ recon'.reconnect_count = recon.reconnect_count
                    /\ recon'.pc = "done"]_vars

\* C14 witness: the call has returned parts although every iteration, also the
\* one that used up the last attempt, ended with an exception.
C14_Witness ==
    /\ recon.pc = "done"
    /\ recon.max_reconnects > 0
    /\ recon.raised = recon.iters
    /\ recon.reconnect_count = recon.max_reconnects
    /\ Len(recon.parts) > 0

\* C9: during record_with_reconnect the reconnect counter starts at 0, changes
\* only by +1 and never exceeds max_reconnects, and at most max_reconnects + 1
\* sessions are started.
C9_ReconnectCounterBounded ==
    /\ [](/\ recon.reconnect_count \in 0..recon.max_reconnects
          /\ recon.sessions <= recon.max_reconnects + 1)
    /\ [][IF recon.pc = "idle"
          THEN recon'.reconnect_count = 0
          ELSE recon'.reconnect_count \in
                  { recon.reconnect_count, recon.reconnect_count + 1 }]_vars

\* C9 witness: the counter reached a maximum above 0 on the normal and on the
\* exception path, with max_reconnects + 1 sessions started.
C9_Witness ==
    /\ recon.pc = "done"
    /\ recon.max_reconnects > 0
    /\ recon.reconnect_count = recon.max_reconnects
    /\ recon.sessions = recon.max_reconnects + 1
    /\ recon.raised > 0

\* C10: record_with_reconnect returns, after at most max_reconnects + 1
\* iterations, provided every capture process exits in the end or check_is_live
\* reports in the end that the stream is over.
C10_ReconnectTerminates ==
    /\ <>(recon.pc = "done")
    /\ [](recon.iters <= recon.max_reconnects + 1)

\* C10 witness: the loop returned after max_reconnects + 1 iterations, every
\* one of which raised.
C10_Witness ==
    /\ recon.pc = "done"
    /\ recon.max_reconnects > 0
    /\ recon.iters = recon.max_reconnects + 1
    /\ recon.raised = recon.iters

\* ------------------------------------------------ monitor.py: ChannelMonitor
\* Whether the polls of channel c are traced.
Traced(c) == trace.on /\ trace.clean /\ c = 1

IsPrefix(s, t) == Len(s) <= Len(t) /\ SubSeq(t, 1, Len(s)) = s

\* A successful poll of channel c begins.
TracePoll(c, status) ==
    IF ~Traced(c) THEN trace
    ELSE LET polls == Append(trace.polls, status)
             follows == trace.tracking /\ IsPrefix(polls, ExamplePolls)
         IN  [trace EXCEPT !.was_live = chan[c].is_live,
                           !.video = chan[c].current_video_id,
                           !.status = status,
                           !.events = << >>,
                           !.tracking = follows,
                           !.polls = IF follows THEN polls ELSE << >>,
                           !.log = IF follows THEN @ ELSE << >>]

\* A recorder of channel c was started or stopped.
TraceEvent(c, event) ==
    IF ~Traced(c) THEN trace
    ELSE [trace EXCEPT !.events = Append(@, event),
                       !.log = IF trace.tracking THEN Append(@, event) ELSE @]

\* A recording of channel c could not be started.
TraceFailure(c) ==
    IF ~Traced(c) THEN trace
    ELSE [NoTrace EXCEPT !.on = TRUE, !.clean = FALSE]

\* get_stream_url(status.video_id, quality): the media URL of a live video.
StreamUrl(video_id) == IF video_id = "A" THEN "u1" ELSE "u2"

\* What get_channel_live_status raises when it fails.
PollErrors == { "Channel not found" }

\* start(), lines 244-252: one polling thread per configured channel, in the
\* order of self._states; then the thread waits at line 256.
MonStart ==
    /\ channels # {}
    /\ \A c \in channels : worker[c].pc = "init"
    /\ worker' = [c \in Channels |->
                     IF c \in channels
                     THEN [worker[c] EXCEPT !.pc = "loop"]
                     ELSE worker[c]]
    /\ starter' = [pc |-> "waiting",
                   threads |-> [i \in 1..Cardinality(channels) |-> i]]
    /\ UNCHANGED <<recVars, recon, retry, timed, halt, channels, chan, stop_event, stopper, reader, trace, lock>>

\* A start() that gives up when a channel has reported an error.
StartReturn_OnError ==
    /\ starter.pc = "waiting"
    /\ stop_event \/ \E c \in channels : chan[c].last_error # None
    /\ starter' = [starter EXCEPT !.pc = "returned"]
    /\ UNCHANGED <<recVars, recon, retry, timed, halt, channels, chan, stop_event, worker, stopper, reader, trace, lock>>

\* start(), lines 255-259: "while not self._stop_event.is_set()" ends, or the
\* stop() called on KeyboardInterrupt has returned.
StartReturn ==
    /\ starter.pc = "waiting"
    /\ stop_event
    /\ starter' = [starter EXCEPT !.pc = "returned"]
    /\ UNCHANGED <<recVars, recon, retry, timed, halt, channels, chan, stop_event, worker, stopper, reader, trace, lock>>

\* _monitor_channel: "while not self._stop_event.is_set()". The wait between
\* two polls (lines 227-230) changes nothing and only reads the stop event, so
\* a thread that has finished a poll is taken to be at the loop test.
W_Loop(c) ==
    /\ worker[c].pc = "loop"
    /\ worker' = [worker EXCEPT ![c].pc = IF stop_event THEN "exited" ELSE "poll"]
    /\ UNCHANGED <<recVars, recon, retry, timed, halt, channels, chan, stop_event, stopper, reader, starter, trace, lock>>

\* A restart test that never sees a new stream.
StreamChanged_Never(status, current_video) == FALSE

\* "if status.video_id != current_video"
StreamChanged(status, current_video) == status.video_id # current_video

\* _check_channel, lines 120-121: "state.is_live = status.is_live" ends the
\* poll. No other thread writes is_live, so the assignment is made in the step
\* that ends the poll's last start or stop (or in the poll's own step if
\* there is none).
SetLive(states, c, status) == [states EXCEPT ![c].is_live = status.is_live]

\* A poll that restarts the recording whenever the channel is still live.
Branch_AlwaysRestarts(status, was_live, current_video) ==
    CASE status.is_live /\ ~was_live ->
            [pc |-> "start", then_start |-> FALSE]
      [] ~status.is_live /\ was_live ->
            [pc |-> "stop", then_start |-> FALSE]
      [] status.is_live /\ was_live ->
            [pc |-> "stop", then_start |-> TRUE]
      [] OTHER ->
            [pc |-> "loop", then_start |-> FALSE]

\* _check_channel, lines 103-118: what the poll leads to.
Branch(status, was_live, current_video) ==
    CASE status.is_live /\ ~was_live ->
            [pc |-> "start", then_start |-> FALSE]
      [] ~status.is_live /\ was_live ->
            [pc |-> "stop", then_start |-> FALSE]
      [] status.is_live /\ was_live /\ StreamChanged(status, current_video) ->
            [pc |-> "stop", then_start |-> TRUE]
      [] OTHER ->
            [pc |-> "loop", then_start |-> FALSE]

\* _check_channel, lines 91-101: the poll returned a status.
W_PollStatus(c) ==
    /\ worker[c].pc = "poll"
    /\ \E status \in ChannelStatuses(c) :
          LET b == Branch(status, chan[c].is_live, chan[c].current_video_id)
              checked == [chan EXCEPT ![c].last_error = None]
          IN  /\ worker' = [worker EXCEPT
                               ![c].status = IF b.pc = "loop" THEN NotLive ELSE status,
                               ![c].pc = b.pc,
                               ![c].then_start = b.then_start]
              /\ chan' = IF b.pc = "loop" THEN SetLive(checked, c, status) ELSE checked
              /\ trace' = TracePoll(c, status)
    /\ UNCHANGED <<recVars, recon, retry, timed, halt, channels, stop_event, stopper, reader, starter, lock>>

\* A failed poll that also takes the channel to be offline.
W_PollError_Offline(c) ==
    /\ worker[c].pc = "poll"
    /\ \E e \in PollErrors : chan' = [chan EXCEPT ![c].last_error = e,
                                                  ![c].is_live = FALSE]
    /\ worker' = [worker EXCEPT ![c].pc = "loop"]
    /\ UNCHANGED <<recVars, recon, retry, timed, halt, channels, stop_event, stopper, reader, starter, trace, lock>>

\* _check_channel, lines 123-130: the poll raised a YouTubeError.
W_PollError(c) ==
    /\ worker[c].pc = "poll"
    /\ \E e \in PollErrors : chan' = [chan EXCEPT ![c].last_error = e]
    /\ worker' = [worker EXCEPT ![c].pc = "loop"]
    /\ UNCHANGED <<recVars, recon, retry, timed, halt, channels, stop_event, stopper, reader, starter, trace, lock>>

\* A polling thread that an unexpected exception of a poll ends.
W_PollCrash_Exits(c) ==
    /\ worker[c].pc = "poll"
    /\ worker' = [worker EXCEPT ![c].pc = "exited"]
    /\ UNCHANGED <<recVars, recon, retry, timed, halt, channels, chan, stop_event, stopper, reader, starter, trace, lock>>

\* _monitor_channel, lines 220-223: the poll raised another exception.
W_PollCrash(c) ==
    /\ worker[c].pc = "poll"
    /\ worker' = [worker EXCEPT ![c].pc = "loop"]
    /\ UNCHANGED <<recVars, recon, retry, timed, halt, channels, chan, stop_event, stopper, reader, starter, trace, lock>>

\* A _stop_recording that stops the recorder of channel 1's state.
StopCall_First(c) ==
    LET recorder == chan[1].recorder
        marked == chan[c].is_recording
    IN  IF recorder # 0 /\ marked
        THEN /\ stop_recording(recorder)
             /\ trace' = TraceEvent(c, <<"stop", chan[c].current_video_id>>)
        ELSE UNCHANGED <<recVars, trace, lock>>

\* _stop_recording, lines 188-199: read the state under the lock, then stop the
\* recorder it names if the channel is marked as recording.
StopCall(c) ==
    LET recorder == chan[c].recorder
        marked == chan[c].is_recording
    IN  IF recorder # 0 /\ marked
        THEN /\ stop_recording(recorder)
             /\ trace' = TraceEvent(c, <<"stop", chan[c].current_video_id>>)
        ELSE UNCHANGED <<recVars, trace, lock>>

\* The recorders after channel c's state has let go of its StreamRecorder:
\* the object is gone, a process it left behind is not.
Dropped(r) == IF r = 0 THEN rec ELSE [rec EXCEPT ![r] = NewRecorder]

\* A _stop_recording that resets the state of every channel.
Cleared_All(c) ==
    [d \in Channels |->
        [chan[d] EXCEPT !.recorder = 0,
                        !.is_recording = FALSE,
                        !.current_video_id = None,
                        !.current_title = None]]

\* _stop_recording, lines 201-206
Cleared(c) ==
    [chan EXCEPT ![c].recorder = 0,
                 ![c].is_recording = FALSE,
                 ![c].current_video_id = None,
                 ![c].current_title = None]

W_Stop(c) ==
    /\ worker[c].pc = "stop"
    /\ StopCall(c)
    /\ worker' = [worker EXCEPT ![c].pc = "stop_write"]
    /\ UNCHANGED <<recon, retry, timed, halt, channels, chan, stop_event, stopper, reader, starter, lock>>

W_StopWrite(c) ==
    /\ worker[c].pc = "stop_write"
    /\ chan' = IF worker[c].then_start
                THEN Cleared(c)
                ELSE SetLive(Cleared(c), c, worker[c].status)
    /\ rec' = Dropped(chan[c].recorder)
    /\ worker' = IF worker[c].then_start
                 THEN [worker EXCEPT ![c].pc = "start", ![c].then_start = FALSE]
                 ELSE [worker EXCEPT ![c].pc = "loop", ![c].status = NotLive]
    /\ UNCHANGED <<now, files, procs, lastCall>>
    /\ UNCHANGED <<recon, retry, timed, halt, channels, stop_event, stopper, reader, starter, trace, lock>>

\* str(e) of what _start_recording catches; the texts are not told apart.
StartError == "Failed to start recording"

\* _start_recording, lines 144-149: get_stream_url raised.
W_StartNoUrl(c) ==
    /\ worker[c].pc = "start"
    /\ worker' = [worker EXCEPT ![c].pc = "start_fail",
                                ![c].error = StartError]
    /\ trace' = TraceFailure(c)
    /\ UNCHANGED <<recVars, recon, retry, timed, halt, channels, chan, stop_event, stopper, reader, starter, lock>>

\* The StreamRecorder objects that a channel's state or a polling thread
\* refers to.
HeldRecorders ==
    { chan[c].recorder : c \in Channels } \cup { worker[c].recorder : c \in Channels }

\* "recorder = StreamRecorder(...)" makes an object that nothing refers to
\* yet. A channel has one such object at a time; it is kept at the channel's
\* own index.
FreeRecorders == { r \in RecIds : r \notin HeldRecorders /\ rec[r] = NewRecorder }

\* _start_recording, lines 144-165: a new StreamRecorder is started.
W_Start(c) ==
    /\ worker[c].pc = "start"
    /\ Unborn # {}
    /\ c \in FreeRecorders
    /\ LET recorder == c
           video_id == worker[c].status.video_id
       IN  /\ start_recording(recorder, StreamUrl(video_id), ChannelName(c))
           /\ IF rec'[recorder].process = 0
              THEN /\ worker' = [worker EXCEPT ![c].pc = "start_fail",
                                               ![c].recorder = recorder,
                                               ![c].error = StartError]
                   /\ trace' = TraceFailure(c)
              ELSE /\ worker' = [worker EXCEPT ![c].pc = "start_write",
                                               ![c].recorder = recorder]
                   /\ trace' = TraceEvent(c, <<"start", video_id>>)
    /\ UNCHANGED <<recon, retry, timed, halt, channels, chan, stop_event, stopper, reader, starter, lock>>

\* _start_recording, lines 167-172
W_StartWrite(c) ==
    /\ worker[c].pc = "start_write"
    /\ chan' = SetLive([chan EXCEPT
                            ![c].recorder = worker[c].recorder,
                            ![c].is_recording = TRUE,
                            ![c].current_video_id = worker[c].status.video_id,
                            ![c].current_title = worker[c].status.title],
                        c, worker[c].status)
    /\ worker' = [worker EXCEPT ![c].pc = "loop",
                                ![c].status = NotLive,
                                ![c].recorder = 0]
    /\ UNCHANGED <<recVars, recon, retry, timed, halt, channels, stop_event, stopper, reader, starter, trace, lock>>

\* A start failure that is logged but not stored.
W_StartFail_Silent(c) ==
    /\ worker[c].pc = "start_fail"
    /\ chan' = SetLive([chan EXCEPT ![c].is_recording = FALSE],
                        c, worker[c].status)
    /\ rec' = Dropped(worker[c].recorder)
    /\ worker' = [worker EXCEPT ![c].pc = "loop",
                                ![c].status = NotLive,
                                ![c].recorder = 0,
                                ![c].error = None]
    /\ UNCHANGED <<now, files, procs, lastCall>>
    /\ UNCHANGED <<recon, retry, timed, halt, channels, stop_event, stopper, reader, starter, trace, lock>>

\* _start_recording, lines 176-180
W_StartFail(c) ==
    /\ worker[c].pc = "start_fail"
    /\ chan' = SetLive([chan EXCEPT ![c].is_recording = FALSE,
                                     ![c].last_error = worker[c].error],
                        c, worker[c].status)
    /\ rec' = Dropped(worker[c].recorder)
    /\ worker' = [worker EXCEPT ![c].pc = "loop",
                                ![c].status = NotLive,
                                ![c].recorder = 0,
                                ![c].error = None]
    /\ UNCHANGED <<now, files, procs, lastCall>>
    /\ UNCHANGED <<recon, retry, timed, halt, channels, stop_event, stopper, reader, starter, trace, lock>>

Worker(c) ==
    \/ W_Loop(c)
    \/ W_PollStatus(c)
    \/ W_PollError(c)
    \/ W_PollCrash(c)
    \/ W_Stop(c)
    \/ W_StopWrite(c)
    \/ W_StartNoUrl(c)
    \/ W_Start(c)
    \/ W_StartWrite(c)
    \/ W_StartFail(c)

\* The channels in the order of self._states.
FirstChannel == CHOOSE c \in channels : \A d \in channels : c <= d

\* The session channel c is recording: its process and its paths.
Session(c) ==
    LET r == chan[c].recorder
    IN  [channel |-> c,
         process |-> rec[r].process,
         temp_file |-> rec[r].temp_file,
         current_file |-> rec[r].current_file,
         wrote |-> procs[rec[r].process].wrote]

\* Channel c is marked as recording and its recorder's process runs.
Recording(c) ==
    /\ chan[c].is_recording
    /\ chan[c].recorder # 0
    /\ is_recording(chan[c].recorder)

\* stop(), lines 263-264
MonStop ==
    /\ channels # {}
    /\ stopper.pc = "idle"
    /\ stop_event' = TRUE
    /\ stopper' = [pc |-> "stop", channel |-> FirstChannel, survived |-> FALSE,
                   load |-> IF \A c \in channels : Recording(c)
                            THEN { Session(c) : c \in channels }
                            ELSE {}]
    /\ UNCHANGED <<recVars, recon, retry, timed, halt, channels, chan, worker, reader, starter, trace, lock>>

\* stop(), lines 267-268: _stop_recording(channel_id), first half
S_Stop ==
    /\ stopper.pc = "stop"
    /\ StopCall(stopper.channel)
    /\ LET c == stopper.channel
           p == IF chan[c].recorder # 0 THEN rec[chan[c].recorder].process ELSE 0
       IN  stopper' = [stopper EXCEPT
                         !.pc = "stop_write",
                         !.survived = @ \/ (/\ chan[c].is_recording
                                            /\ p # 0
                                            /\ procs'[p].state = "running")]
    /\ UNCHANGED <<recon, retry, timed, halt, channels, chan, stop_event, worker, reader, starter, lock>>

\* stop(), lines 267-268: _stop_recording(channel_id), second half
S_StopWrite ==
    /\ stopper.pc = "stop_write"
    /\ chan' = Cleared(stopper.channel)
    /\ rec' = Dropped(chan[stopper.channel].recorder)
    /\ stopper' = IF stopper.channel + 1 \in channels
                  THEN [stopper EXCEPT !.pc = "stop", !.channel = @ + 1]
                  ELSE [stopper EXCEPT !.pc = "join", !.channel = 0]
    /\ UNCHANGED <<now, files, procs, lastCall>>
    /\ UNCHANGED <<recon, retry, timed, halt, channels, stop_event, worker, reader, starter, trace, lock>>

\* A join without a timeout: it returns when the polling threads have exited.
S_Join_Unbounded ==
    /\ stopper.pc = "join"
    /\ \A c \in channels : worker[c].pc = "exited"
    /\ stopper' = [stopper EXCEPT !.pc = "done"]
    /\ UNCHANGED <<recVars, recon, retry, timed, halt, channels, chan, stop_event, worker, reader, starter, trace, lock>>

\* stop(), lines 271-274: every join returns, at the latest after its timeout.
S_Join ==
    /\ stopper.pc = "join"
    /\ stopper' = [stopper EXCEPT !.pc = "done"]
    /\ UNCHANGED <<recVars, recon, retry, timed, halt, channels, chan, stop_event, worker, reader, starter, trace, lock>>

Stopper ==
    \/ MonStop
    \/ S_Stop
    \/ S_StopWrite
    \/ S_Join

\* ---------------------------------------------------- monitor.py: get_status
\* Lines 276-291. No lock is taken: each attribute of the ChannelState is read
\* in a step of its own, in the order of the dictionary display. last_check is
\* left out: the model does not keep the time of a poll.
G_Call ==
    /\ channels # {}
    /\ reader.pc = "idle"
    /\ reader' = [pc |-> "is_live", channel |-> FirstChannel, entry |-> NoEntry]
    /\ UNCHANGED <<recVars, recon, retry, timed, halt, channels, chan, stop_event, worker, stopper, starter, trace, lock>>

\* Lines 285-289: one attribute read, then on to the next.
G_Read(field, next) ==
    /\ reader.pc = field
    /\ reader' = [reader EXCEPT !.pc = next,
                                !.entry[field] = chan[reader.channel][field]]
    /\ UNCHANGED <<recVars, recon, retry, timed, halt, channels, chan, stop_event, worker, stopper, starter, trace, lock>>

\* Lines 283-291: the entry is stored; the next channel, or the return.
G_Next ==
    /\ reader.pc = "entry"
    /\ reader' = IF reader.channel + 1 \in channels
                 THEN [pc |-> "is_live", channel |-> reader.channel + 1,
                       entry |-> NoEntry]
                 ELSE [reader EXCEPT !.pc = "returned"]
    /\ UNCHANGED <<recVars, recon, retry, timed, halt, channels, chan, stop_event, worker, stopper, starter, trace, lock>>

Reader ==
    \/ G_Call
    \/ G_Read("is_live", "is_recording")
    \/ G_Read("is_recording", "current_title")
    \/ G_Read("current_title", "last_error")
    \/ G_Read("last_error", "entry")
    \/ G_Next

MonNext ==
    \/ MonStart
    \/ \E c \in channels : Worker(c)
    \/ Stopper
    \/ EnvExit /\ UNCHANGED <<recon, retry, timed, halt, monVars>>
    \/ EnvWrite /\ UNCHANGED <<recon, retry, timed, halt, monVars>>

\* ChannelMonitor.__init__ for a configuration of n channels, at clock
\* reading t.
InitMonitor(n, traced, t) ==
    /\ now = t
    /\ files = << >>
    /\ procs = Pool(MaxProcs)
    /\ rec = [r \in RecIds |-> NewRecorder]
    /\ lastCall = NoCall
    /\ recon = NoReconnect
    /\ retry = NoRetry
    /\ timed = NoTimed
    /\ halt = NoHalt
    /\ channels = 1..n
    /\ chan = [c \in Channels |-> NewChannelState]
    /\ stop_event = FALSE
    /\ worker = [c \in Channels |-> NewWorker]
    /\ stopper = NewStopper
    /\ reader = NewReader
    /\ starter = NewStarter
    /\ trace = [NoTrace EXCEPT !.on = traced, !.tracking = traced]
    /\ lock = 0

\* The monitor with its polling threads and a thread calling stop(), all
\* within the last second of the clock that is followed.
MonitorSpec ==
    /\ \E n \in 1..NumChannels : InitMonitor(n, FALSE, MaxTime)
    /\ [][MonNext]_vars

\* The steps of a call of stop() after its first statement.
StopProgress ==
    \/ S_Stop
    \/ S_StopWrite
    \/ S_Join

\* ChannelMonitor.__init__ for every channel at once, on a machine where one
\* more capture process can be launched.
InitStop ==
    /\ now = MaxTime
    /\ files = << >>
    /\ procs = Pool(1)
    /\ rec = [r \in RecIds |-> NewRecorder]
    /\ lastCall = NoCall
    /\ recon = NoReconnect
    /\ retry = NoRetry
    /\ timed = NoTimed
    /\ halt = NoHalt
    /\ channels = 1..NumChannels
    /\ chan = [c \in Channels |-> NewChannelState]
    /\ stop_event = FALSE
    /\ worker = [c \in Channels |-> NewWorker]
    /\ stopper = NewStopper
    /\ reader = NewReader
    /\ starter = NewStarter
    /\ trace = [NoTrace EXCEPT !.on = FALSE, !.tracking = FALSE]
    /\ lock = 0

\* The monitor where the thread that called stop() keeps running; nothing is
\* assumed of the polling threads or of the capture processes.
FairStopSpec ==
    /\ InitStop
    /\ [][MonNext]_vars
    /\ WF_vars(StopProgress)

\* The monitor with the return of start().
StartNext ==
    \/ MonNext
    \/ StartReturn

\* Every channel is monitored, and one more capture process can be launched.
StartSpec == InitStop /\ [][StartNext]_vars

\* C22: start() launches exactly one polling thread for each configured
\* channel, and has returned only if the stop event is set.
C22_StartBlocksUntilStop ==
    /\ starter.pc # "idle" =>
          /\ Len(starter.threads) = Cardinality(channels)
          /\ \A c \in channels :
                Cardinality({ i \in DOMAIN starter.threads : starter.threads[i] = c }) = 1
    /\ starter.pc = "returned" => stop_event

\* C22: start() is still waiting although a poll and a start of a recording
\* have failed.
C22_Witness ==
    /\ starter.pc = "waiting"
    /\ ~stop_event
    /\ Cardinality(channels) > 1
    /\ \E c \in channels : chan[c].last_error \in PollErrors
    /\ \E c \in channels : chan[c].last_error = StartError

\* C16: a call of stop() returns, whatever the capture processes and the
\* polling threads do.
C16_StopTerminates == (stopper.pc = "stop") ~> (stopper.pc = "done")

\* C16: stop() has returned although a capture process it tried to stop
\* survived both the terminate and the kill request and a polling thread has
\* not exited.
C16_Witness ==
    /\ stopper.pc = "done"
    /\ stopper.survived
    /\ \E c \in channels : worker[c].pc # "exited"

\* One channel, polled without a coordinator shutdown, and a thread that
\* calls get_status().
StatusNext ==
    \/ MonStart
    \/ Worker(1)
    \/ Reader
    \/ EnvExit /\ UNCHANGED <<recon, retry, timed, halt, monVars>>
    \/ EnvWrite /\ UNCHANGED <<recon, retry, timed, halt, monVars>>

StatusSpec == InitMonitor(1, FALSE, MaxTime) /\ [][StatusNext]_vars

\* C18: the entry get_status() returns for a channel is a snapshot. In every
\* state a channel is marked as recording exactly if it has a current title
\* (_start_recording and _stop_recording set both in one locked section), so
\* an entry whose values held together at one instant shows the same.
C18_StatusIsSnapshot ==
    /\ \A c \in channels : chan[c].is_recording <=> chan[c].current_title # None
    /\ reader.pc \in { "entry", "returned" } =>
          (reader.entry.is_recording <=> reader.entry.current_title # None)

\* One channel, polled without a coordinator shutdown, its polls traced.
TableNext ==
    \/ MonStart
    \/ Worker(1)
    \/ EnvExit /\ UNCHANGED <<recon, retry, timed, halt, monVars>>
    \/ EnvWrite /\ UNCHANGED <<recon, retry, timed, halt, monVars>>

TableSpec == InitMonitor(1, TRUE, 0) /\ [][TableNext]_vars

\* The recorder calls the monitor's transition table gives for a poll that
\* finds the channel with the given liveness and stream id.
TableRow(was_live, video, status) ==
    CASE ~was_live /\ status.is_live -> << <<"start", status.video_id>> >>
      [] was_live /\ ~status.is_live -> << <<"stop", video>> >>
      [] was_live /\ status.is_live /\ status.video_id # video ->
            << <<"stop", video>>, <<"start", status.video_id>> >>
      [] OTHER -> << >>

\* C1: for a single channel driven only by its polling thread, as long as every
\* start of a recording succeeds, a successful poll makes exactly the recorder
\* calls of its row of the transition table (never a call outside the row
\* while the poll runs, the whole row once it has ended), and the polls
\* [not-live, live(A), live(A), live(B), not-live] lead to exactly
\* start(A), stop(A), start(B), stop(B), in that order.
C1_PollsFollowTransitionTable ==
    (trace.on /\ trace.clean) =>
        LET row == TableRow(trace.was_live, trace.video, trace.status)
            ended == worker[1].pc \in { "loop", "poll", "exited" }
        IN  /\ IsPrefix(trace.events, row)
            /\ ended => trace.events = row
            /\ (ended /\ trace.polls = ExamplePolls) => trace.log = ExampleEvents

\* C1 witness: the example's five polls have been made, the last has ended,
\* and the four recorder calls were made in the example's order.
C1_Witness ==
    /\ trace.on
    /\ trace.clean
    /\ trace.polls = ExamplePolls
    /\ trace.log = ExampleEvents
    /\ trace.events = << <<"stop", "B">> >>
    /\ worker[1].pc = "loop"

\* C15: if stop() is called while every channel is recording with a running
\* capture process, then when stop() returns no recorder of a channel owns a
\* process and the data each of those sessions had recorded is at the
\* session's final or temporary path.
C15_StopUnderLoad ==
    (stopper.pc = "done" /\ stopper.load # {}) =>
        /\ \A c \in channels :
              /\ chan[c].recorder # 0 => rec[chan[c].recorder].process = 0
              /\ worker[c].recorder # 0 => rec[worker[c].recorder].process = 0
        /\ \A s \in stopper.load :
              s.wrote =>
                 \/ Exists(s.current_file) /\ files[s.current_file] = s.process
                 \/ Exists(s.temp_file) /\ files[s.temp_file] = s.process

\* A step in which start_recording launches a session of channel c on
\* recorder r.
StartsSession(r, c) ==
    /\ rec[r].process = 0
    /\ rec'[r].process # 0
    /\ rec'[r].channel_name = ChannelName(c)

\* A step in which stop_recording ends a session of channel c that recorder r
\* owned.
StopsSession(r, c) ==
    /\ rec[r].process # 0
    /\ rec'[r].process = 0
    /\ rec[r].channel_name = ChannelName(c)
    /\ rec'[r].channel_name = ChannelName(c)

\* C17 as stated: a session of a channel is started and stopped only in steps
\* of that channel's own polling thread.
C17_OnlyOwnWorker ==
    [][\A c \in channels, r \in RecIds :
          (StartsSession(r, c) \/ StopsSession(r, c)) => worker'[c] # worker[c]]_vars

\* C17, amended: a session of a channel is started only in steps of that
\* channel's own polling thread, and stopped only in steps of that thread or
\* of the thread running stop(); the polling thread of another channel never
\* starts or stops it.
C17_OwnWorkerOrStop ==
    [][\A c \in channels, r \in RecIds :
          /\ StartsSession(r, c) => worker'[c] # worker[c]
          /\ StopsSession(r, c) =>
                 \/ worker'[c] # worker[c]
                 \/ stopper' # stopper]_vars

\* C17: the thread running stop() has stopped a running session of a channel
\* while that channel's polling thread and another channel's polling thread
\* are running.
C17_Witness ==
    /\ stopper.pc = "stop_write"
    /\ stopper.load # {}
    /\ Cardinality(channels) > 1
    /\ chan[stopper.channel].recorder # 0
    /\ rec[chan[stopper.channel].recorder].process = 0
    /\ \A c \in channels : worker[c].pc \in { "loop", "poll" }

\* C19: a poll in which the liveness query raises stores the error text as
\* last_error and changes nothing else: the channel's is_live, is_recording,
\* current_video_id and recorder, the recorders and the capture processes stay
\* as they were; the polling thread is back at its loop, from where it polls
\* again unless the monitor is being stopped.
C19_FailedPollKeepsState ==
    /\ [](\A c \in channels :
            (worker[c].pc = "loop" /\ ~stop_event) =>
                ENABLED (W_Loop(c) /\ worker'[c].pc = "poll"))
    /\ [][\A c \in channels :
            W_PollError(c) =>
                /\ chan'[c].last_error \in PollErrors
                /\ chan'[c].last_error # None
                /\ chan'[c].is_live = chan[c].is_live
                /\ chan'[c].is_recording = chan[c].is_recording
                /\ chan'[c].current_video_id = chan[c].current_video_id
                /\ chan'[c].recorder = chan[c].recorder
                /\ rec' = rec
                /\ procs' = procs
                /\ files' = files
                /\ worker'[c].pc = "loop"]_vars

\* C19: the last poll of a channel that is live and recording with a running
\* process failed, and the channel is as it was.
C19_Witness ==
    \E c \in channels :
        /\ worker[c].pc = "loop"
        /\ chan[c].last_error \in PollErrors
        /\ chan[c].is_live
        /\ Recording(c)

\* C20: a poll whose start of a recording fails (get_stream_url or
\* start_recording raises) ends with the channel not marked as recording,
\* without a recorder and with last_error set, and with the polling thread
\* back at its loop; and while that is the state the channel's last poll left,
\* a poll that reports the channel live leads to another start.
C20_FailedStartIsRetried ==
    /\ [](\A c \in channels :
            (worker[c].pc \in { "loop", "poll" } /\ chan[c].last_error = StartError) =>
                \A status \in ChannelStatuses(c) :
                    status.is_live =>
                        LET b == Branch(status, chan[c].is_live,
                                        chan[c].current_video_id)
                        IN  b.pc = "start" \/ (b.pc = "stop" /\ b.then_start))
    /\ [][\A c \in channels :
            W_StartFail(c) =>
                /\ chan'[c].is_recording = FALSE
                /\ chan'[c].recorder = 0
                /\ chan'[c].last_error # None
                /\ worker'[c].pc = "loop"
                /\ worker'[c].recorder = 0]_vars

\* C20: a poll of a channel that is reported live has ended in a failed
\* start.
C20_Witness ==
    \E c \in channels :
        /\ worker[c].pc = "loop"
        /\ chan[c].last_error = StartError
        /\ chan[c].is_live
        /\ ~chan[c].is_recording
        /\ chan[c].recorder = 0

\* C21: a polling thread leaves its loop only when the stop event is set, so
\* no failure inside a poll ends it; and a step of one channel's polling
\* thread leaves the polling threads of the other channels where they are.
C21_WorkerExitsOnlyOnStop ==
    /\ [](\A c \in channels : worker[c].pc = "exited" => stop_event)
    /\ [][\A c \in channels :
            /\ (worker[c].pc # "exited" /\ worker'[c].pc = "exited") =>
                   (stop_event /\ worker[c].pc = "loop")
            /\ (worker[c].pc # "init" /\ worker'[c] # worker[c]) =>
                   \A d \in channels \ {c} : worker'[d] = worker[d]]_vars

\* C21: a polling thread whose last poll failed kept running and has exited
\* after the stop event was set, while another one is still running.
C21_Witness ==
    \E c \in channels :
        /\ worker[c].pc = "exited"
        /\ chan[c].last_error \in PollErrors \cup {StartError}
        /\ \E d \in channels \ {c} : worker[d].pc \notin { "init", "exited" }

\* A start or stop of channel c's recording is in progress.
InProgress(c) ==
    \/ worker[c].pc \in { "start", "start_write", "start_fail", "stop", "stop_write" }
    \/ stopper.pc \in { "stop", "stop_write" } /\ stopper.channel = c

\* C2: whenever no start or stop is in progress for a channel, the channel's
\* is_recording flag is true exactly if the recorder of the channel's state
\* owns a process that has not exited.
C2_FlagIffLiveProcess ==
    \A c \in channels :
        ~InProgress(c) =>
            (chan[c].is_recording <=>
                (chan[c].recorder # 0 /\ is_recording(chan[c].recorder)))

\* A step in which a call of the named operation on recorder r returns or raises.
StartCallStep(r) ==
    lastCall'.seq # lastCall.seq /\ lastCall'.op = "start" /\ lastCall'.r = r
StopCallStep(r) ==
    lastCall'.seq # lastCall.seq /\ lastCall'.op = "stop" /\ lastCall'.r = r

\* The capture processes a recorder launched that are still running.
RunningOf(r) == { p \in ProcIds : Running(p) /\ procs[p].owner = r }

\* The final path that belongs to a temporary path.
FinalOf(path) == [path EXCEPT !.tmp = FALSE]

\* C3: in every reachable state a StreamRecorder has at most one capture
\* process that it launched and that is still running.
C3_AtMostOneRunningProcess ==
    \A r \in RecIds : Cardinality(RunningOf(r)) <= 1

\* C4: start_recording on a recorder that owns a process handle raises
\* "Already recording" and leaves the session untouched: every recorder field,
\* every process and every file is unchanged and no process is launched.
C4_SecondStartRefused ==
    [][\A r \in RecIds :
          (StartCallStep(r) /\ rec[r].process # 0) =>
              /\ lastCall'.result = Raises("Already recording")
              /\ rec' = rec
              /\ procs' = procs
              /\ files' = files]_vars

\* C4 witness: a start was refused while the first session's process runs.
C4_Witness ==
    /\ lastCall.op = "start"
    /\ lastCall.result = Raises("Already recording")
    /\ is_recording(TheRecorder)
    /\ Exists(rec[TheRecorder].temp_file)

\* C5: stop_recording on a recorder that owns no process handle returns None
\* and changes no recorder state, no process and no file.
C5_StopWithoutSessionIsNoop ==
    [][\A r \in RecIds :
          (StopCallStep(r) /\ rec[r].process = 0) =>
              /\ lastCall'.result = RetNone
              /\ rec' = rec
              /\ procs' = procs
              /\ files' = files]_vars

\* C5 witness: a no-op stop after an earlier stop finalized a session.
C5_Witness ==
    /\ lastCall.op = "stop"
    /\ lastCall.how = "noop"
    /\ rec[TheRecorder].process = 0
    /\ rec[TheRecorder].stop_event
    /\ Exists(rec[TheRecorder].current_file)

\* C6: right after stop_recording returns, is_recording() is false, and it
\* turns true again only in a step in which start_recording succeeds.
C6_NotRecordingAfterStop ==
    [][\A r \in RecIds :
          /\ (lastCall'.op = "stop" /\ lastCall'.r = r) => ~is_recording(r)'
          /\ (~is_recording(r) /\ is_recording(r)') =>
                 (StartCallStep(r) /\ lastCall'.result.kind = "path")]_vars

\* C6 witness: a stop returned although the process survived terminate and kill.
C6_Witness ==
    /\ lastCall.op = "stop"
    /\ lastCall.how = "unkillable"
    /\ ~is_recording(TheRecorder)
    /\ RunningOf(TheRecorder) # {}

\* C7: while a session's capture process may still be running, the final path
\* does not hold that session's file.
C7_FinalOnlyAfterConfirmedStop ==
    \A p \in ProcIds :
        Running(p) =>
            ~(Exists(FinalOf(procs[p].out)) /\ files[FinalOf(procs[p].out)] = p)

\* C8: a stop_recording that finds the temporary file either renames it to the
\* final path and returns the final path, or leaves it in place and returns
\* the temporary path; the recorded data is at the returned path afterwards.
C8_StopKeepsRecordedData ==
    [][\A r \in RecIds :
          (StopCallStep(r) /\ rec[r].process # 0 /\ Exists(rec[r].temp_file)) =>
              LET tmp == rec[r].temp_file
                  fin == rec[r].current_file
              IN  \/ /\ lastCall'.result = RetPath(fin)
                     /\ fin \in DOMAIN files'
                     /\ files'[fin] = files[tmp]
                     /\ tmp \notin DOMAIN files'
                  \/ /\ lastCall'.result = RetPath(tmp)
                     /\ files' = files]_vars

\* C8 witness: the rename failed and the temporary path was returned.
C8_Witness ==
    /\ lastCall.op = "stop"
    /\ lastCall.result = RetPath(rec[TheRecorder].temp_file)
    /\ Exists(rec[TheRecorder].temp_file)
    /\ ~Exists(rec[TheRecorder].current_file)

\* ------------------------------------------------------------------ retry.py
\* The largest max_attempts and the largest delay settings (in seconds) that
\* are tried.
MaxAttempts == 4
MaxDelay == 2

\* Python floats are IEEE 754 doubles: x ** n raises OverflowError when the
\* result reaches 2 ** 1024.
FloatMaxExp == 1024

\* "jitter = delay * 0.25": delays are counted in quarter seconds, so that the
\* jitter range of a delay of whole seconds is a whole number.
JitterDivisor == 4

\* log2 of the values of exponential_base that are tried: 1.0, 2.0 and
\* 2.0 ** 512.
Log2Bases == { 0, 1, 512 }

\* From this exponent on base_delay * 2 ** e, for a base_delay of at least one
\* second, lies above every max_delay that is tried.
ExactBits == 16

RetryConfigs ==
    [ max_attempts : 0..MaxAttempts,
      base_delay   : 0..MaxDelay,
      max_delay    : 0..MaxDelay,
      log2_base    : Log2Bases,
      jitter       : BOOLEAN,
      on_retry     : BOOLEAN ]

Smaller(a, b) == IF a <= b THEN a ELSE b
Larger(a, b) == IF a >= b THEN a ELSE b

\* calculate_delay, line 42: "config.exponential_base ** attempt" raises.
PowOverflows(attempt, config) == config.log2_base * attempt >= FloatMaxExp

\* calculate_delay, lines 42-45: the capped delay, in quarter seconds.
CappedDelay(attempt, config) ==
    LET e == config.log2_base * attempt
        cap == JitterDivisor * config.max_delay
    IN  IF config.base_delay = 0 THEN Smaller(0, cap)
        ELSE IF e >= ExactBits THEN cap
        ELSE Smaller(JitterDivisor * config.base_delay * 2^e, cap)

\* calculate_delay, lines 48-50: what random.uniform(-jitter, jitter) can add.
JitterDraws(attempt, config) ==
    LET jitter == CappedDelay(attempt, config) \div JitterDivisor
    IN  IF config.jitter THEN (0 - jitter)..jitter ELSE { 0 }

\* calculate_delay, lines 42-52, where it returns.
calculate_delay(attempt, config, draw) ==
    Larger(0, CappedDelay(attempt, config) + draw)

\* A result of a call: a value or an exception, and the invocation of the
\* operation it comes from.
Outcome(kind, of) == [kind |-> kind, of |-> of]

\* retry_with_backoff, lines 71-76
R_Call ==
    /\ retry.pc = "idle"
    /\ \E config \in RetryConfigs :
          retry' = [NoRetry EXCEPT
                      !.config = config,
                      !.pc = IF config.max_attempts > 0 THEN "call" ELSE "exhausted"]
    /\ UNCHANGED <<recVars, recon, timed, halt, monVars>>

\* An except clause that also catches what is not retryable.
AfterFailure_CatchAll(r, retryable) ==
    [r EXCEPT !.calls = @ + 1,
              !.fatal = IF retryable THEN @ ELSE r.calls + 1,
              !.last_exception = r.calls + 1,
              !.pc = IF r.attempt < r.config.max_attempts - 1
                     THEN "backoff" ELSE "exhausted"]

\* Lines 79-81, 92: func() raised.
AfterFailure(r, retryable) ==
    IF retryable
    THEN [r EXCEPT !.calls = @ + 1,
                   !.last_exception = r.calls + 1,
                   !.pc = IF r.attempt < r.config.max_attempts - 1
                          THEN "backoff" ELSE "exhausted"]
    ELSE [r EXCEPT !.calls = @ + 1,
                   !.fatal = r.calls + 1,
                   !.pc = "raised",
                   !.result = Outcome("exception", r.calls + 1)]

\* A retry loop that returns the last result of two successful invocations.
AfterSuccess_Twice(r) ==
    [r EXCEPT !.calls = @ + 2,
              !.pc = "returned",
              !.result = Outcome("value", r.calls + 2)]

\* Lines 77-78: "return func()".
AfterSuccess(r) ==
    [r EXCEPT !.calls = @ + 1,
              !.pc = "returned",
              !.result = Outcome("value", r.calls + 1)]

\* Lines 76-81: one invocation of the operation.
R_Invoke ==
    /\ retry.pc = "call"
    /\ \/ retry' = AfterSuccess(retry)
       \/ \E retryable \in BOOLEAN : retry' = AfterFailure(retry, retryable)
    /\ UNCHANGED <<recVars, recon, timed, halt, monVars>>

\* Lines 83-88: the delay is computed and the on_retry callback is told.
R_Backoff ==
    /\ retry.pc = "backoff"
    /\ IF PowOverflows(retry.attempt, retry.config)
       THEN retry' = [retry EXCEPT !.pc = "raised",
                                   !.result = Outcome("OverflowError", 0)]
       ELSE \E draw \in JitterDraws(retry.attempt, retry.config) :
               retry' = [retry EXCEPT
                           !.pc = "sleep",
                           !.delay = calculate_delay(retry.attempt, retry.config, draw),
                           !.notified = IF retry.config.on_retry THEN @ + 1 ELSE @,
                           !.told = IF retry.config.on_retry
                                    THEN calculate_delay(retry.attempt, retry.config, draw)
                                    ELSE @]
    /\ UNCHANGED <<recVars, recon, timed, halt, monVars>>

\* Line 90 and the next round of the for loop.
R_Sleep ==
    /\ retry.pc = "sleep"
    /\ retry' = [retry EXCEPT !.pc = "call",
                              !.slept = @ + 1,
                              !.slept_for = retry.delay,
                              !.attempt = @ + 1]
    /\ UNCHANGED <<recVars, recon, timed, halt, monVars>>

\* Lines 94-97: raise RetryExhaustedError(..., last_exception=last_exception)
R_Exhausted ==
    /\ retry.pc = "exhausted"
    /\ retry' = [retry EXCEPT
                    !.pc = "raised",
                    !.result = Outcome("RetryExhaustedError", retry.last_exception)]
    /\ UNCHANGED <<recVars, recon, timed, halt, monVars>>

RetryNext ==
    \/ R_Call
    \/ R_Invoke
    \/ R_Backoff
    \/ R_Sleep
    \/ R_Exhausted

RetrySpec == InitRec /\ [][RetryNext]_vars

\* calculate_delay called with some attempt number and configuration.
D_Call ==
    /\ retry.pc = "idle"
    /\ \E config \in RetryConfigs, attempt \in 0..MaxAttempts :
          IF PowOverflows(attempt, config)
          THEN retry' = [NoRetry EXCEPT !.config = config,
                                        !.attempt = attempt,
                                        !.pc = "raised",
                                        !.result = Outcome("OverflowError", 0)]
          ELSE \E draw \in JitterDraws(attempt, config) :
                  retry' = [NoRetry EXCEPT
                              !.config = config,
                              !.attempt = attempt,
                              !.pc = "returned",
                              !.delay = calculate_delay(attempt, config, draw)]
    /\ UNCHANGED <<recVars, recon, timed, halt, monVars>>

DelaySpec == InitRec /\ [][D_Call]_vars

\* C23: retry_with_backoff invokes the operation at most max_attempts times;
\* it returns the result of the first invocation that succeeds, which is the
\* last one made; and when max_attempts invocations have been made and all
\* have failed retryably it raises RetryExhaustedError with the failure of the
\* last invocation.
C23_RetryUntilSuccessOrExhausted ==
    /\ retry.calls <= retry.config.max_attempts
    /\ retry.pc = "returned" =>
          /\ retry.result = Outcome("value", retry.calls)
          /\ retry.calls = retry.attempt + 1
    /\ (/\ retry.pc = "raised"
        /\ retry.calls = retry.config.max_attempts
        /\ retry.calls > 0
        /\ retry.last_exception = retry.calls) =>
          retry.result = Outcome("RetryExhaustedError", retry.calls)
    /\ retry.result.kind = "RetryExhaustedError" =>
          /\ retry.calls = retry.config.max_attempts
          /\ retry.result.of = retry.last_exception

\* C23: all of several attempts failed and RetryExhaustedError was raised.
C23_Witness ==
    /\ retry.result = Outcome("RetryExhaustedError", retry.calls)
    /\ retry.calls = MaxAttempts - 1
    /\ retry.slept = retry.calls - 1

\* C24: a failure of the operation that is not retryable leaves
\* retry_with_backoff as it is, at whatever attempt it occurs: in the step in
\* which it is raised the call ends with that exception, and no callback
\* call and no sleep is made for it.
C24_NonRetryablePropagates ==
    /\ [](retry.fatal # 0 =>
            /\ retry.pc = "raised"
            /\ retry.result = Outcome("exception", retry.fatal)
            /\ retry.calls = retry.fatal
            /\ retry.calls = retry.attempt + 1
            /\ retry.notified = (IF retry.config.on_retry THEN retry.attempt ELSE 0)
            /\ retry.slept = retry.attempt)
    /\ [][retry.pc = "raised" => retry' = retry]_vars

\* C24: an invocation after the first one failed in a way that is not
\* retryable.
C24_Witness ==
    /\ retry.fatal # 0
    /\ retry.result.kind = "exception"
    /\ retry.attempt = 2
    /\ retry.config.on_retry

\* C25: calculate_delay returns a delay that is at least 0 and at most 1.25
\* times max_delay, and at most max_delay when jitter is off.
C25_DelayWithinBounds ==
    retry.pc # "idle" =>
        /\ retry.pc = "returned"
        /\ retry.delay >= 0
        /\ JitterDivisor * retry.delay <=
              (JitterDivisor + 1) * JitterDivisor * retry.config.max_delay
        /\ ~retry.config.jitter => retry.delay <= JitterDivisor * retry.config.max_delay

\* -------------------------------------------- utils.py: generate_filename
\* The longest name among the short names that are all tried.
MaxNameChars == 3

\* The characters names are made of: a letter, two reserved characters and
\* the two characters that are stripped.
NameChars == { "a", "/", "*", " ", "." }

\* n times the character ch.
Repeat(ch, n) == [i \in 1..n |-> ch]

ExampleName == <<"C", "h", "/", "a", "n", ":", "n", "e", "l", "*">>

\* The names generate_filename is called with: every short name, the name of
\* the example, and names around the length limit.
FilenameInputs ==
    UNION { [1..n -> NameChars] : n \in 0..MaxNameChars }
      \cup { ExampleName,
             Repeat("a", MaxNameLen),
             Repeat("a", MaxNameLen + 1),
             Repeat("a", MaxNameLen) \o <<"/">>,
             <<" ">> \o Repeat("*", MaxNameLen) \o <<".", "a">>,
             Repeat(".", MaxNameLen + 1) }

Extensions == { <<"m", "p", "4">>, <<"m", "k", "v">> }

\* strftime('%Y%m%d_%H%M%S') of the clock reading t, the clock being followed
\* from 2024-01-01 12:00:00 on.
TimestampText(t) ==
    <<"2", "0", "2", "4", "0", "1", "0", "1", "_", "1", "2", "0", "0">>
        \o <<Digits[(t \div 10) + 1], Digits[(t % 10) + 1]>>

\* f"{safe_name}_{timestamp}.{extension}" as text.
FilenameText(filename) ==
    filename.name \o <<"_">> \o TimestampText(filename.ts) \o <<".">> \o filename.ext

\* generate_filename(channel_name, extension) is called and returns.
F_Call ==
    \E name \in FilenameInputs, ext \in Extensions, t \in ClockReadings :
        /\ lastCall = NoCall
        /\ now' = t
        /\ lastCall' = [r |-> 0, op |-> "generate_filename",
                        result |-> FilenameText(generate_filename(name, ext, t)),
                        how |-> [name |-> name, ext |-> ext, t |-> t],
                        seq |-> 0]
        /\ UNCHANGED <<files, procs, rec, recon, retry, timed, halt, monVars>>

FilenameSpec == InitRec /\ [][F_Call]_vars

\* The text s ends with the text t.
EndsWith(s, t) ==
    /\ Len(s) >= Len(t)
    /\ SubSeq(s, Len(s) - Len(t) + 1, Len(s)) = t

\* C26: generate_filename returns the sanitized name, "_", the timestamp, "."
\* and the extension; the sanitized name has none of the reserved characters,
\* has between 1 and 100 characters, and has "_" wherever the name it was made
\* from has a reserved character (as long as nothing is stripped or cut); the
\* example name gives "Ch_an_nel__20240101_120000.mp4".
C26_FilenameFormat ==
    lastCall.op = "generate_filename" =>
        LET name == lastCall.how.name
            tail == <<"_">> \o TimestampText(lastCall.how.t) \o <<".">> \o lastCall.how.ext
            out  == lastCall.result
            safe == SubSeq(out, 1, Len(out) - Len(tail))
        IN  /\ EndsWith(out, tail)
            /\ safe = sanitize_filename(name)
            /\ \A i \in 1..Len(safe) : safe[i] \notin ReservedChars
            /\ Len(safe) >= 1
            /\ Len(safe) <= 100
            /\ (Len(name) = Len(safe) /\ name # <<>> /\ safe # Unknown) =>
                  \A i \in 1..Len(name) :
                      safe[i] = IF name[i] \in { "<", ">", ":", "\"", "/", "\\", "|", "?", "*" }
                                THEN "_" ELSE name[i]
            /\ (name = ExampleName /\ lastCall.how.t = 0
                  /\ lastCall.how.ext = <<"m", "p", "4">>) =>
                  out = <<"C", "h", "_", "a", "n", "_", "n", "e", "l", "_", "_",
                          "2", "0", "2", "4", "0", "1", "0", "1", "_",
                          "1", "2", "0", "0", "0", "0", ".", "m", "p", "4">>

\* C26: the example name was formatted at 12:00:00.
C26_Witness ==
    /\ lastCall.op = "generate_filename"
    /\ lastCall.how.name = ExampleName
    /\ lastCall.how.t = 0
    /\ lastCall.how.ext = <<"m", "p", "4">>

\* ------------------------------------------------- sessions and their paths
\* C27: no two recording sessions are given the same temporary or final path,
\* so finalizing one session never overwrites the file of another: the data
\* at a final path is never replaced by the data of another writer.
C27_SessionsNeverSharePaths ==
    [][\A q \in DOMAIN files \cap DOMAIN files' :
          ~q.tmp => files'[q] = files[q]]_vars

\* ------------------------------------------- monitor.py: the polling threads
\* The polling threads of every configured channel and the capture processes,
\* without a call of stop().
WorkersNext ==
    \/ MonStart
    \/ \E c \in channels : Worker(c)
    \/ EnvExit /\ UNCHANGED <<recon, retry, timed, halt, monVars>>
    \/ EnvWrite /\ UNCHANGED <<recon, retry, timed, halt, monVars>>

WorkersSpec == InitMonitor(NumChannels, FALSE, MaxTime) /\ [][WorkersNext]_vars

\* The StreamRecorder objects of channel d: the one its state names and the
\* one its polling thread is about to store.
RecordersOf(d) == { chan[d].recorder, worker[d].recorder } \ {0}

\* C28: a step of the polling thread of channel c (a poll, a start or a stop
\* of a recording) leaves the state of every other channel, the recorders of
\* every other channel and their capture processes unchanged.
C28_SourcesIndependent ==
    [][\A c \in channels :
          (worker[c].pc # "init" /\ worker'[c] # worker[c]) =>
              \A d \in channels \ {c} :
                  /\ chan'[d] = chan[d]
                  /\ \A r \in RecordersOf(d) :
                        /\ rec'[r] = rec[r]
                        /\ rec[r].process # 0 =>
                              procs'[rec[r].process] = procs[rec[r].process]]_vars

\* C28: the polling thread of one channel has just stopped its recorder
\* while another channel is recording.
C28_Witness ==
    \E c \in channels, d \in channels :
        /\ c # d
        /\ Recording(d)
        /\ worker[c].pc = "stop_write"
        /\ chan[c].recorder # 0
        /\ rec[chan[c].recorder].stop_event
        /\ rec[chan[c].recorder].process = 0

\* ------------------------------------------------ recorder.py: is_recording
\* C29: every call of is_recording() returns true exactly if the recorder
\* owns a process handle and that process has not exited when the call is
\* made.
C29_IsRecordingProbesProcess ==
    [][(lastCall' # lastCall /\ lastCall'.op = "is_recording") =>
          LET p == rec[lastCall'.r].process
          IN  lastCall'.result =
                  RetBool(p # 0 /\ procs[p].state = "running")]_vars

\* C29: is_recording() has returned false for a recorder that still owns the
\* handle of a process that exited on its own.
C29_Witness ==
    /\ lastCall.op = "is_recording"
    /\ lastCall.result = RetBool(FALSE)
    /\ rec[lastCall.r].process # 0
    /\ procs[rec[lastCall.r].process].state = "exited"

\* ----------------------------------------- recorder.py: record_with_duration
\* The longest duration argument that is followed, in seconds.
MaxDuration == 2

Durations == 0..MaxDuration

\* Line 314: start_recording, outside the try statement; then line 321,
\* "start_time = time.time()".
T_Call ==
    /\ timed.pc = "idle"
    /\ \E a \in StartArgs, d \in Durations :
          /\ start_recording(TheRecorder, a[1], a[2])
          /\ timed' = IF lastCall'.result.kind = "raise"
                      THEN [NoTimed EXCEPT !.pc = "raised",
                                           !.duration = d,
                                           !.result = lastCall'.result]
                      ELSE [NoTimed EXCEPT !.pc = "wait",
                                           !.duration = d,
                                           !.sessions = 1]
    /\ UNCHANGED <<recon, retry, halt, monVars>>

\* Lines 322-325: "while self.is_recording()" is false, or
\* "if elapsed >= duration: break".
LeavesLoop(t) == ~is_recording(TheRecorder) \/ t.elapsed >= t.duration

T_LeaveLoop ==
    /\ timed.pc = "wait"
    /\ LeavesLoop(timed)
    /\ timed' = [timed EXCEPT !.pc = "stop"]
    /\ UNCHANGED <<recVars, recon, retry, halt, monVars>>

\* A sleep during which the clock does not advance.
SleepElapsed_Stalls(e) == { e }

\* int(time.time() - start_time) at the next test, after a sleep of a second
\* or more.
SleepElapsed(e) == { e + 1 } \cup (e + 1)..(MaxDuration + 1)

\* Line 326: time.sleep(1), then the next reading of the clock.
T_Sleep ==
    /\ timed.pc = "wait"
    /\ ~LeavesLoop(timed)
    /\ timed.ticks <= MaxDuration
    /\ \E n \in SleepElapsed(timed.elapsed) :
          timed' = [timed EXCEPT !.ticks = @ + 1, !.elapsed = n]
    /\ UNCHANGED <<recVars, recon, retry, halt, monVars>>

\* A KeyboardInterrupt arrives during the wait: on to the except clause.
T_Interrupt ==
    /\ timed.pc = "wait"
    /\ timed' = [timed EXCEPT !.pc = "except", !.interrupted = TRUE]
    /\ UNCHANGED <<recVars, recon, retry, halt, monVars>>

\* Line 328 and line 331: "return self.stop_recording()".
T_Stop ==
    /\ timed.pc \in { "stop", "except" }
    /\ stop_recording(TheRecorder)
    /\ timed' = [timed EXCEPT !.pc = "returned",
                              !.stops = @ + 1,
                              !.result = lastCall'.result]
    /\ UNCHANGED <<recon, retry, halt, monVars>>

\* The steps of the thread that runs record_with_duration.
TimedProgress ==
    \/ T_LeaveLoop
    \/ T_Sleep
    \/ T_Stop

TimedNext ==
    \/ T_Call
    \/ TimedProgress
    \/ T_Interrupt
    \/ EnvExit /\ UNCHANGED <<recon, retry, timed, halt, monVars>>
    \/ EnvWrite /\ UNCHANGED <<recon, retry, timed, halt, monVars>>

\* One call of record_with_duration on a new recorder; the calling thread
\* keeps running, nothing is assumed of the capture process or of interrupts.
FairTimedSpec ==
    /\ InitRec
    /\ [][TimedNext]_vars
    /\ WF_vars(TimedProgress)

\* C30: record_with_duration starts one session, sleeps only while the
\* process runs and the elapsed time is below the duration, makes at most
\* duration sleeps, and once the session has started it calls stop_recording
\* exactly once, also when interrupted during the wait, and returns that
\* call's result with no process owned.
C30_TimedRecordingStopsOnce ==
    /\ [](timed.ticks <= timed.duration)
    /\ [](timed.pc = "returned" =>
              /\ timed.sessions = 1
              /\ timed.stops = 1
              /\ lastCall.op = "stop"
              /\ timed.result = lastCall.result
              /\ rec[TheRecorder].process = 0)
    /\ [][timed'.ticks > timed.ticks =>
              /\ rec[TheRecorder].process # 0
              /\ procs[rec[TheRecorder].process].state = "running"
              /\ timed.elapsed < timed.duration]_vars
    /\ [][timed'.stops > timed.stops =>
              \/ timed.pc = "except"
              \/ timed.elapsed >= timed.duration
              \/ rec[TheRecorder].process = 0
              \/ procs[rec[TheRecorder].process].state # "running"]_vars
    /\ (timed.pc = "wait") ~> (timed.pc = "returned")

\* C30: a call that slept for its whole duration, and then was interrupted,
\* has returned the path of the finalized file.
C30_Witness ==
    /\ timed.pc = "returned"
    /\ timed.interrupted
    /\ timed.duration > 1
    /\ timed.ticks = timed.duration
    /\ timed.result.kind = "path"
    /\ ~timed.result.path.tmp

\* ------------------------------- recorder.py: record_with_reconnect, the URLs
\* C31: the first iteration of record_with_reconnect starts its session with
\* the stream_url argument and does not call get_stream_url(); every later
\* iteration calls get_stream_url() exactly once and starts its session with
\* the URL it returned, also after an exception in the first iteration.
C31_FreshUrlAfterFirstSession ==
    /\ [](recon.refreshes = IF recon.iters = 0 THEN 0 ELSE recon.iters - 1)
    /\ [][recon'.sessions > recon.sessions =>
              rec'[TheRecorder].stream_url =
                  IF recon'.iters = 1 THEN recon.stream_url ELSE FreshUrl]_vars

\* C31: the first iteration ended in the except clause without a session,
\* and the second iteration's session runs with the refreshed URL.
C31_Witness ==
    /\ recon.pc = "inner"
    /\ recon.iters = 2
    /\ recon.raised = 1
    /\ recon.sessions = 1
    /\ recon.refreshes = 1
    /\ rec[TheRecorder].stream_url = FreshUrl
    /\ FreshUrl # recon.stream_url

\* ------------------------------------- retry.py: callbacks and sleeps
\* The invocations that failed in a retryable way.
RetryableFailures ==
    retry.calls - (IF retry.pc = "returned" THEN 1 ELSE 0)
                - (IF retry.fatal # 0 THEN 1 ELSE 0)

\* C32: every sleep of retry_with_backoff follows one on_retry call (where a
\* callback is given) that was told the delay then slept; no callback call
\* and no sleep follows the last failed attempt; and a call that ended after
\* k attempts failed retryably has slept min(k, max_attempts - 1) times.
C32_OneCallbackAndSleepPerRetry ==
    /\ [][retry'.slept > retry.slept =>
              /\ retry'.slept = retry.slept + 1
              /\ retry'.slept_for = retry.delay
              /\ retry.config.on_retry =>
                    /\ retry.notified = retry.slept + 1
                    /\ retry.told = retry.delay]_vars
    /\ [](retry.notified = IF retry.config.on_retry
                           THEN retry.slept + (IF retry.pc = "sleep" THEN 1 ELSE 0)
                           ELSE 0)
    /\ []((retry.pc \in { "returned", "raised" } /\ retry.config.max_attempts > 0) =>
              retry.slept = Smaller(RetryableFailures, retry.config.max_attempts - 1))

\* ------------------------ recorder.py: stop_recording, statement by statement
\* A session for the call to stop.
H_Start ==
    /\ halt.pc \in { "idle", "returned" }
    /\ \E a \in StartArgs : start_recording(TheRecorder, a[1], a[2])
    /\ UNCHANGED <<recon, retry, timed, halt, monVars>>

\* Lines 216-220: the recorder owns a process, the call goes on.
H_Call ==
    /\ halt.pc \in { "idle", "returned" }
    /\ rec[TheRecorder].process # 0
    /\ halt' = [NoHalt EXCEPT !.pc = "terminate"]
    /\ UNCHANGED <<recVars, recon, retry, timed, monVars>>

\* A stop that sends the kill request without waiting for the process.
AfterTerminate_KillsAtOnce(h) ==
    [h EXCEPT !.requests = Append(@, "terminate"), !.pc = "kill"]

\* Line 224 returned: on to "self._process.wait(timeout=5)".
AfterTerminate(h) ==
    [h EXCEPT !.requests = Append(@, "terminate"), !.pc = "wait5"]

\* Line 224: "self._process.terminate()" returns, or raises an Exception that
\* line 233 catches.
H_Terminate ==
    /\ halt.pc = "terminate"
    /\ \/ halt' = AfterTerminate(halt)
       \/ halt' = [halt EXCEPT !.pc = "clear", !.how = "error"]
    /\ UNCHANGED <<recVars, recon, retry, timed, monVars>>

\* Line 225: the process is gone within 5 seconds, or the wait raises
\* TimeoutExpired (line 226), or another Exception (line 233).
H_Wait5 ==
    /\ halt.pc = "wait5"
    /\ LET p == rec[TheRecorder].process
       IN  \/ /\ procs' = [procs EXCEPT ![p] = ExitedProc]
              /\ halt' = [halt EXCEPT !.pc = "clear", !.how = "graceful",
                                      !.waits = @ + 1]
           \/ /\ Running(p)
              /\ procs' = procs
              /\ halt' = [halt EXCEPT !.pc = "kill", !.timeouts = @ + 1,
                                      !.waits = @ + 1]
           \/ /\ procs' = procs
              /\ halt' = [halt EXCEPT !.pc = "clear", !.how = "error",
                                      !.waits = @ + 1]
    /\ UNCHANGED <<now, files, rec, lastCall, recon, retry, timed, monVars>>

\* Line 228: "self._process.kill()"
H_Kill ==
    /\ halt.pc = "kill"
    /\ halt' = [halt EXCEPT !.requests = Append(@, "kill"), !.pc = "wait2"]
    /\ UNCHANGED <<recVars, recon, retry, timed, monVars>>

\* Lines 229-232: the process is gone within 2 seconds, or the second wait
\* raises TimeoutExpired: "Process could not be killed".
H_Wait2 ==
    /\ halt.pc = "wait2"
    /\ LET p == rec[TheRecorder].process
       IN  \/ /\ procs' = [procs EXCEPT ![p] = ExitedProc]
              /\ halt' = [halt EXCEPT !.pc = "clear", !.how = "killed",
                                      !.waits = @ + 1]
           \/ /\ Running(p)
              /\ procs' = procs
              /\ halt' = [halt EXCEPT !.pc = "clear", !.how = "unkillable",
                                      !.timeouts = @ + 1, !.waits = @ + 1]
    /\ UNCHANGED <<now, files, rec, lastCall, recon, retry, timed, monVars>>

\* Lines 236-258: the handle is cleared, the drain threads are joined with a
\* timeout each, the temporary file is moved, the call returns.
H_Clear ==
    /\ halt.pc = "clear"
    /\ rec' = [rec EXCEPT
                  ![TheRecorder].process =
                      HandleAfterStop(rec[TheRecorder].process, halt.how),
                  ![TheRecorder].stop_event = TRUE,
                  ![TheRecorder].output_threads = {}]
    /\ Finalize(TheRecorder, halt.how)
    /\ halt' = [halt EXCEPT !.pc = "returned"]
    /\ UNCHANGED <<now, procs, recon, retry, timed, monVars>>

\* The steps of the thread that called stop_recording.
HaltProgress ==
    \/ H_Terminate
    \/ H_Wait5
    \/ H_Kill
    \/ H_Wait2
    \/ H_Clear

HaltNext ==
    \/ H_Start
    \/ H_Call
    \/ HaltProgress
    \/ EnvExit /\ UNCHANGED <<recon, retry, timed, halt, monVars>>
    \/ EnvWrite /\ UNCHANGED <<recon, retry, timed, halt, monVars>>

\* One recorder whose sessions are stopped; the calling thread keeps running,
\* nothing is assumed of the capture process.
FairHaltSpec ==
    /\ InitRec
    /\ [][HaltNext]_vars
    /\ WF_vars(HaltProgress)

\* C33: stop_recording on an owned process requests termination first and
\* waits once; it sends the kill request only after that wait has timed out,
\* and then waits once more; however the waits and requests end, the call
\* returns with the process handle cleared.
C33_TerminateThenKillThenClear ==
    /\ [](halt.requests \in { << >>, <<"terminate">>, <<"terminate", "kill">> })
    /\ [](halt.waits <= 2)
    /\ [][Len(halt'.requests) = 2 /\ Len(halt.requests) < 2 =>
              /\ halt.requests = <<"terminate">>
              /\ halt.waits = 1
              /\ halt.timeouts = 1]_vars
    /\ [][halt'.pc = "returned" /\ halt.pc # "returned" =>
              /\ halt.how \in { "graceful", "killed", "unkillable", "error" }
              /\ rec[TheRecorder].process # 0
              /\ rec'[TheRecorder].process = 0
              /\ lastCall'.op = "stop"]_vars
    /\ (halt.pc = "terminate") ~> (halt.pc = "returned")

\* C33: stop_recording has returned with the handle cleared although both
\* waits timed out and the process still runs.
C33_Witness ==
    /\ halt.pc = "returned"
    /\ halt.how = "unkillable"
    /\ halt.requests = <<"terminate", "kill">>
    /\ halt.timeouts = 2
    /\ rec[TheRecorder].process = 0
    /\ \E p \in ProcIds : Running(p)

\* ------------------------------- monitor.py: the threads, statement by statement
\* The polling threads and the thread running stop() followed through every
\* "with self._lock:" block and every call that leaves the monitor. A position
\* "atN" is a thread about to enter the with block of line N, "inN" is the
\* thread inside it, "callN" is the thread inside the call made at line N,
\* "sleepN" the thread inside time.sleep at line N.

\* settings.interval: the seconds between two polls.
Interval == 2

\* The thread that runs stop(); the polling threads are named by their channel.
StopThread == NumChannels + 1

\* Where thread t is.
Position(t) == IF t = StopThread THEN stopper.pc ELSE worker[t].pc

\* The positions inside a with block, by the position before the block.
Enter ==
    [ at87 |-> "in87", at97 |-> "in97", at120 |-> "in120", at124 |-> "in124",
      at167 |-> "in167", at178 |-> "in178", at188 |-> "in188", at201 |-> "in201" ]

LockedSections == { Enter[l] : l \in DOMAIN Enter }

\* The positions inside get_channel_live_status, get_stream_url,
\* start_recording, stop_recording and time.sleep.
ExternalCalls ==
    { "call91", "call144", "call162", "call195", "stale195", "sleep223", "sleep230" }

\* A with block that keeps the lock when it is left.
Released_Never(t) == t

\* Leaving a with block releases the lock.
Released(t) == 0

\* "with self._lock:" in a polling thread: threading.Lock is not reentrant,
\* the thread waits until no thread holds it.
P_Acquire(c) ==
    /\ worker[c].pc \in DOMAIN Enter
    /\ lock = 0
    /\ lock' = c
    /\ worker' = [worker EXCEPT ![c].pc = Enter[worker[c].pc]]
    /\ UNCHANGED <<recVars, recon, retry, timed, halt, channels, chan, stop_event, stopper, reader, starter, trace>>

\* _monitor_channel, line 217
P_Loop(c) ==
    /\ worker[c].pc = "loop"
    /\ worker' = [worker EXCEPT ![c].pc = IF stop_event THEN "exited" ELSE "at87"]
    /\ UNCHANGED <<recVars, recon, retry, timed, halt, channels, chan, stop_event, stopper, reader, starter, trace, lock>>

\* _check_channel, lines 87-88
P_ReadState(c) ==
    /\ worker[c].pc = "in87"
    /\ lock' = Released(c)
    /\ worker' = [worker EXCEPT ![c].pc = "call91"]
    /\ UNCHANGED <<recVars, recon, retry, timed, halt, channels, chan, stop_event, stopper, reader, starter, trace>>

\* _check_channel, lines 91-95: get_channel_live_status returns a status,
\* raises a YouTubeError, or raises something else (caught at line 220).
P_Poll(c) ==
    /\ worker[c].pc = "call91"
    /\ \/ \E status \in ChannelStatuses(c) :
             worker' = [worker EXCEPT ![c].pc = "at97", ![c].status = status]
       \/ \E e \in PollErrors :
             worker' = [worker EXCEPT ![c].pc = "at124", ![c].error = e]
       \/ worker' = [worker EXCEPT ![c].pc = "sleep223"]
    /\ UNCHANGED <<recVars, recon, retry, timed, halt, channels, chan, stop_event, stopper, reader, starter, trace, lock>>

\* The position that follows the branch taken at lines 103-118.
AfterBranch(b) ==
    CASE b.pc = "start" -> "call144"
      [] b.pc = "stop" -> "at188"
      [] OTHER -> "at120"

\* _check_channel, lines 97-118: the locked reads, then the branch.
P_Checked(c) ==
    /\ worker[c].pc = "in97"
    /\ LET b == Branch(worker[c].status, chan[c].is_live, chan[c].current_video_id)
       IN  worker' = [worker EXCEPT ![c].pc = AfterBranch(b),
                                    ![c].then_start = b.then_start]
    /\ chan' = [chan EXCEPT ![c].last_error = None]
    /\ lock' = Released(c)
    /\ UNCHANGED <<recVars, recon, retry, timed, halt, channels, stop_event, stopper, reader, starter, trace>>

\* _start_recording, lines 144-149: get_stream_url returns or raises.
P_GetUrl(c) ==
    /\ worker[c].pc = "call144"
    /\ \/ worker' = [worker EXCEPT ![c].pc = "call162"]
       \/ worker' = [worker EXCEPT ![c].pc = "at178", ![c].error = StartError]
    /\ UNCHANGED <<recVars, recon, retry, timed, halt, channels, chan, stop_event, stopper, reader, starter, trace, lock>>

\* _start_recording, lines 154-165: a new StreamRecorder is started.
P_StartRecording(c) ==
    /\ worker[c].pc = "call162"
    /\ Unborn # {}
    /\ c \in FreeRecorders
    /\ start_recording(c, StreamUrl(worker[c].status.video_id), ChannelName(c))
    /\ worker' = IF rec'[c].process = 0
                 THEN [worker EXCEPT ![c].pc = "at178", ![c].recorder = c,
                                     ![c].error = StartError]
                 ELSE [worker EXCEPT ![c].pc = "at167", ![c].recorder = c]
    /\ UNCHANGED <<recon, retry, timed, halt, channels, chan, stop_event, stopper, reader, starter, trace, lock>>

\* _start_recording, lines 167-172
P_Started(c) ==
    /\ worker[c].pc = "in167"
    /\ chan' = [chan EXCEPT ![c].recorder = worker[c].recorder,
                            ![c].is_recording = TRUE,
                            ![c].current_video_id = worker[c].status.video_id,
                            ![c].current_title = worker[c].status.title]
    /\ lock' = Released(c)
    /\ worker' = [worker EXCEPT ![c].pc = "at120", ![c].recorder = 0]
    /\ UNCHANGED <<recVars, recon, retry, timed, halt, channels, stop_event, stopper, reader, starter, trace>>

\* _start_recording, lines 176-180
P_StartFailed(c) ==
    /\ worker[c].pc = "in178"
    /\ chan' = [chan EXCEPT ![c].is_recording = FALSE,
                            ![c].last_error = worker[c].error]
    /\ rec' = Dropped(worker[c].recorder)
    /\ lock' = Released(c)
    /\ worker' = [worker EXCEPT ![c].pc = "at120", ![c].recorder = 0, ![c].error = None]
    /\ UNCHANGED <<now, files, procs, lastCall>>
    /\ UNCHANGED <<recon, retry, timed, halt, channels, stop_event, stopper, reader, starter, trace>>

\* _stop_recording, line 193: "if recorder and is_recording"
AfterRead(c) ==
    IF chan[c].recorder # 0 /\ chan[c].is_recording THEN "call195" ELSE "at201"

\* _stop_recording, lines 188-193
P_ReadRecorder(c) ==
    /\ worker[c].pc = "in188"
    /\ lock' = Released(c)
    /\ worker' = [worker EXCEPT ![c].pc = AfterRead(c), ![c].recorder = chan[c].recorder]
    /\ UNCHANGED <<recVars, recon, retry, timed, halt, channels, chan, stop_event, stopper, reader, starter, trace>>

\* _stop_recording, lines 194-199
P_StopRecording(c) ==
    /\ worker[c].pc = "call195"
    /\ stop_recording(worker[c].recorder)
    /\ worker' = [worker EXCEPT ![c].pc = "at201"]
    /\ UNCHANGED <<recon, retry, timed, halt, channels, chan, stop_event, stopper, reader, starter, trace, lock>>

\* _stop_recording, lines 201-206. A stop() that read this state's recorder at
\* line 190 and has not called it yet is left with a recorder that is no
\* longer the state's ("stale195").
P_Cleared(c) ==
    /\ worker[c].pc = "in201"
    /\ chan' = Cleared(c)
    /\ rec' = Dropped(chan[c].recorder)
    /\ lock' = Released(c)
    /\ worker' = [worker EXCEPT ![c].pc = IF worker[c].then_start THEN "call144" ELSE "at120",
                                ![c].then_start = FALSE,
                                ![c].recorder = 0]
    /\ stopper' = IF stopper.pc = "call195" /\ stopper.channel = c
                  THEN [stopper EXCEPT !.pc = "stale195"]
                  ELSE stopper
    /\ UNCHANGED <<now, files, procs, lastCall>>
    /\ UNCHANGED <<recon, retry, timed, halt, channels, stop_event, reader, starter, trace>>

\* _check_channel, lines 120-121
P_SetLive(c) ==
    /\ worker[c].pc = "in120"
    /\ chan' = SetLive(chan, c, worker[c].status)
    /\ lock' = Released(c)
    /\ worker' = [worker EXCEPT ![c].pc = "check228", ![c].status = NotLive, ![c].waited = 0]
    /\ UNCHANGED <<recVars, recon, retry, timed, halt, channels, stop_event, stopper, reader, starter, trace>>

\* _check_channel, lines 123-130
P_PollError(c) ==
    /\ worker[c].pc = "in124"
    /\ chan' = [chan EXCEPT ![c].last_error = worker[c].error]
    /\ lock' = Released(c)
    /\ worker' = [worker EXCEPT ![c].pc = "check228", ![c].error = None, ![c].waited = 0]
    /\ UNCHANGED <<recVars, recon, retry, timed, halt, channels, stop_event, stopper, reader, starter, trace>>

\* _monitor_channel, lines 220-223: time.sleep(5) returns.
P_CrashSleep(c) ==
    /\ worker[c].pc = "sleep223"
    /\ worker' = [worker EXCEPT ![c].pc = "check228", ![c].waited = 0]
    /\ UNCHANGED <<recVars, recon, retry, timed, halt, channels, chan, stop_event, stopper, reader, starter, trace, lock>>

\* A wait between two polls that does not look at the stop event.
WaitEnds_Deaf(c) == worker[c].waited = Interval

\* _monitor_channel, lines 227-229: the range is used up, or the stop event
\* is set.
WaitEnds(c) == worker[c].waited = Interval \/ stop_event

\* _monitor_channel, lines 227-229
P_WaitCheck(c) ==
    /\ worker[c].pc = "check228"
    /\ worker' = [worker EXCEPT ![c].pc = IF WaitEnds(c) THEN "loop" ELSE "sleep230",
                                ![c].waited = IF WaitEnds(c) THEN 0 ELSE @]
    /\ UNCHANGED <<recVars, recon, retry, timed, halt, channels, chan, stop_event, stopper, reader, starter, trace, lock>>

\* _monitor_channel, line 230: time.sleep(1) returns.
P_WaitSleep(c) ==
    /\ worker[c].pc = "sleep230"
    /\ worker' = [worker EXCEPT ![c].pc = "check228", ![c].waited = @ + 1]
    /\ UNCHANGED <<recVars, recon, retry, timed, halt, channels, chan, stop_event, stopper, reader, starter, trace, lock>>

Poller(c) ==
    \/ P_Acquire(c)
    \/ P_Loop(c)
    \/ P_ReadState(c)
    \/ P_Poll(c)
    \/ P_Checked(c)
    \/ P_GetUrl(c)
    \/ P_StartRecording(c)
    \/ P_Started(c)
    \/ P_StartFailed(c)
    \/ P_ReadRecorder(c)
    \/ P_StopRecording(c)
    \/ P_Cleared(c)
    \/ P_SetLive(c)
    \/ P_PollError(c)
    \/ P_CrashSleep(c)
    \/ P_WaitCheck(c)
    \/ P_WaitSleep(c)

\* stop(), lines 263-267
Q_SetEvent ==
    /\ channels # {}
    /\ stopper.pc = "idle"
    /\ stop_event' = TRUE
    /\ stopper' = [stopper EXCEPT !.pc = "at188", !.channel = FirstChannel]
    /\ UNCHANGED <<recVars, recon, retry, timed, halt, channels, chan, worker, reader, starter, trace, lock>>

\* "with self._lock:" in the thread running stop()
Q_Acquire ==
    /\ stopper.pc \in DOMAIN Enter
    /\ lock = 0
    /\ lock' = StopThread
    /\ stopper' = [stopper EXCEPT !.pc = Enter[stopper.pc]]
    /\ UNCHANGED <<recVars, recon, retry, timed, halt, channels, chan, stop_event, worker, reader, starter, trace>>

\* _stop_recording, lines 188-193, called by stop()
Q_ReadRecorder ==
    /\ stopper.pc = "in188"
    /\ lock' = Released(StopThread)
    /\ stopper' = [stopper EXCEPT !.pc = AfterRead(stopper.channel)]
    /\ UNCHANGED <<recVars, recon, retry, timed, halt, channels, chan, stop_event, worker, reader, starter, trace>>

\* _stop_recording, lines 194-199, called by stop()
Q_StopRecording ==
    /\ stopper.pc = "call195"
    /\ stop_recording(chan[stopper.channel].recorder)
    /\ stopper' = [stopper EXCEPT !.pc = "at201"]
    /\ UNCHANGED <<recon, retry, timed, halt, channels, chan, stop_event, worker, reader, starter, trace, lock>>

\* _stop_recording, lines 194-199, called by stop() on a recorder that the
\* channel's polling thread has stopped since: it has no process.
Q_StopStale ==
    /\ stopper.pc = "stale195"
    /\ stopper' = [stopper EXCEPT !.pc = "at201"]
    /\ UNCHANGED <<recVars, recon, retry, timed, halt, channels, chan, stop_event, worker, reader, starter, trace, lock>>

\* _stop_recording, lines 201-206, called by stop(); then the next channel of
\* line 267.
Q_Cleared ==
    /\ stopper.pc = "in201"
    /\ chan' = Cleared(stopper.channel)
    /\ rec' = Dropped(chan[stopper.channel].recorder)
    /\ lock' = Released(StopThread)
    /\ stopper' = IF stopper.channel + 1 \in channels
                  THEN [stopper EXCEPT !.pc = "at188", !.channel = @ + 1]
                  ELSE [stopper EXCEPT !.pc = "join", !.channel = 0]
    /\ UNCHANGED <<now, files, procs, lastCall>>
    /\ UNCHANGED <<recon, retry, timed, halt, channels, stop_event, worker, reader, starter, trace>>

StopSteps ==
    \/ Q_SetEvent
    \/ Q_Acquire
    \/ Q_ReadRecorder
    \/ Q_StopRecording
    \/ Q_StopStale
    \/ Q_Cleared
    \/ S_Join

LockNext ==
    \/ MonStart
    \/ \E c \in channels : Poller(c)
    \/ StopSteps

\* Every channel is monitored; the capture processes run as launched.
LockSpec == InitStop /\ [][LockNext]_vars

\* C34: the coordinator lock is held by a thread exactly while the thread is
\* inside one of the with blocks, never while it is inside a call to
\* get_channel_live_status, get_stream_url, start_recording, stop_recording or
\* time.sleep; and the step a thread takes from entering a with block to leaving
\* it leaves the clock, the files, the capture processes and the stop event as
\* they are.
C34_LockCoversOnlyStateFields ==
    /\ [](\A t \in channels \cup {StopThread} :
             /\ lock = t <=> Position(t) \in LockedSections
             /\ Position(t) \in ExternalCalls => lock # t)
    /\ [][lock # 0 /\ lock' = 0 =>
              UNCHANGED <<now, files, procs, lastCall, stop_event>>]_vars

\* C34 witness: a polling thread is inside start_recording while another
\* thread is inside a with block.
C34_Witness ==
    \E c \in channels :
        /\ worker[c].pc = "call162"
        /\ lock \in (channels \cup {StopThread}) \ {c}

\* The steps of channel c's polling thread in the wait between two polls
\* and at the loop test that follows it.
WaitProgress(c) ==
    \/ P_WaitCheck(c)
    \/ P_WaitSleep(c)
    \/ P_Loop(c)

\* One polling thread and a thread calling stop(), followed statement by
\* statement, where every time.sleep(1) returns and a polling thread that can
\* run does run.
FairWaitSpec ==
    /\ InitMonitor(1, FALSE, MaxTime)
    /\ [][LockNext]_vars
    /\ \A c \in Channels : WF_vars(WaitProgress(c))

\* The positions of a polling thread in the wait between two polls.
WaitPositions == { "check228", "sleep230" }

\* C35: once the stop event is set, a polling thread that is in the wait
\* between two polls begins no further time.sleep(1) after the one it may be
\* in, goes from the wait to the loop test and from there out of the loop
\* without another poll, and does leave the loop.
C35_WaitEndsAtNextCheck ==
    /\ [][\A c \in channels :
             stop_event /\ worker[c].pc \in WaitPositions \cup {"loop"} =>
                /\ worker[c].pc = "check228" => worker'[c].pc \in {"check228", "loop"}
                /\ worker[c].pc = "sleep230" => worker'[c].pc \in WaitPositions
                /\ worker[c].pc = "loop" => worker'[c].pc \in {"loop", "exited"}]_vars
    /\ \A c \in Channels :
          (c \in channels /\ stop_event /\ worker[c].pc \in WaitPositions)
              ~> (worker[c].pc = "exited")

\* C35 witness: the stop event was set while a polling thread slept with more
\* of its interval left; the thread is at the check that follows the sleep.
C35_Witness ==
    \E c \in channels :
        /\ stop_event
        /\ worker[c].pc = "check228"
        /\ worker[c].waited > 0
        /\ worker[c].waited < Interval

\* C36: once the stop event is set, no polling thread enters
\* recorder.start_recording and no capture process is launched.
C36_NoStartAfterStopEvent ==
    [][stop_event =>
          /\ \A c \in channels :
                worker'[c].pc = "call162" => worker[c].pc = "call162"
          /\ \A p \in ProcIds : Running(p)' => Running(p)]_vars

\* C37: when stop() has returned and every polling thread has exited, no
\* recorder still owns a running capture process (stop_recording resets the
\* handle of every process it is called for), and every channel's state has
\* is_recording false and no recorder.
C37_NothingLeftAfterStop ==
    (stopper.pc = "done" /\ \A c \in channels : worker[c].pc = "exited") =>
        /\ \A r \in RecIds : rec[r].process # 0 => ~Running(rec[r].process)
        /\ \A c \in channels : ~chan[c].is_recording /\ chan[c].recorder = 0

\* C38: every path a stop_recording call returns during the loop of
\* record_with_reconnect, the call of the except clause included, is appended
\* to the list of parts that the call returns.
C38_EveryStoppedPartReturned ==
    [][(/\ recon.pc \in { "stop", "except" }
        /\ recon' # recon
        /\ lastCall'.op = "stop"
        /\ lastCall'.result.kind = "path") =>
           recon'.parts = Append(recon.parts, lastCall'.result.path)]_vars

\* Channel c is live and marked as recording, and the capture process of its
\* recorder has exited on its own: the recorder still has the handle.
DeadSession(c) ==
    /\ chan[c].is_live
    /\ chan[c].is_recording
    /\ chan[c].recorder # 0
    /\ rec[chan[c].recorder].process # 0
    /\ ~Running(rec[chan[c].recorder].process)

\* The fields of channel c's state that a start or a stop of its recording sets.
SessionFields(c) ==
    <<chan[c].is_recording, chan[c].recorder, chan[c].current_video_id>>

\* C39: with the capture process of the traced channel gone, a poll that
\* reports the channel live with the stream id of the state ends without a
\* recorder call: the recorders, the processes and the files stay as they are
\* (the temporary file is not renamed) and so do is_recording, recorder and
\* current_video_id. Only a poll that reports not-live or another stream id
\* goes on to stop the recording, and nothing but that stop changes the
\* recorder or the state's session fields or moves the temporary file.
C39_DeadSessionKeptWhileLive ==
    /\ [][(/\ DeadSession(1)
           /\ trace.on /\ trace.clean
           /\ worker[1].pc = "poll" /\ worker'[1].pc # "poll"
           /\ trace'.status = Live(chan[1].current_video_id)) =>
              /\ worker'[1].pc = "loop"
              /\ UNCHANGED <<files, procs, rec>>
              /\ SessionFields(1)' = SessionFields(1)
              /\ chan'[1].is_live]_vars
    /\ [][(/\ DeadSession(1)
           /\ trace.on /\ trace.clean
           /\ worker[1].pc = "poll" /\ worker'[1].pc = "stop") =>
              trace'.status # Live(chan[1].current_video_id)]_vars
    /\ [][(DeadSession(1) /\ worker[1].pc \notin { "stop", "stop_write" }) =>
              /\ rec' = rec
              /\ SessionFields(1)' = SessionFields(1)
              /\ Exists(rec[chan[1].recorder].temp_file) =>
                     Exists(rec[chan[1].recorder].temp_file)']_vars

\* C39 witness: the traced channel's capture process has exited, the last
\* poll found the channel live and reported the same stream live, and the
\* session is as it was: marked as recording, its data at the temporary path.
C39_Witness ==
    /\ DeadSession(1)
    /\ trace.on /\ trace.clean
    /\ worker[1].pc = "loop"
    /\ trace.was_live
    /\ trace.status = Live(chan[1].current_video_id)
    /\ trace.video = chan[1].current_video_id
    /\ trace.events = << >>
    /\ Exists(rec[chan[1].recorder].temp_file)
    /\ ~Exists(rec[chan[1].recorder].current_file)

====
